---- MODULE Spec2Model ----
(***************************************************************************)
(* Model of the HammerAlgo backtester: the single-position Portfolio       *)
(* (src/backtester/portfolio.py), the bar loop of BacktestEngine.run       *)
(* (src/backtester/engine.py), the candlestick pattern detectors           *)
(* (src/patterns/candlestick.py) and the signal generators                 *)
(* (src/strategies).                                                       *)
(*                                                                         *)
(* Arithmetic.  The program computes in floating point; the model computes *)
(* in exact fixed point.  Rates (commission, slippage) are integers in     *)
(* units of 1/RateDen.  Every price and every amount of money is an        *)
(* integer number of 1/Unit currency units, Unit = RateDen^2, which makes  *)
(* price*(1 +- slippage) and amount*(1 +- commission) exact.  int(x) is    *)
(* truncation toward zero.  pnl_percent is a reduced fraction.             *)
(* None is the empty sequence and a present optional value x is <<x>>.     *)
(* The signal generators only compare, add and scale prices by the         *)
(* risk-reward ratio; their prices are integers in units of 1/Tick.        *)
(***************************************************************************)
EXTENDS Integers, Sequences, FiniteSets, TLC

VARIABLES portfolio, call, opens, closes, calls, config, pc, i, row, strategy, df, session

vars == <<portfolio, call, opens, closes, calls, config, pc, i, row, strategy, df, session>>

\* the variables of the backtester and those of the signal generators
backtestVars == <<portfolio, call, opens, closes, calls, config>>

generatorVars == <<strategy, df, session>>

RateDen == 100

MaxCalls == 4

MaxBars == 3

Unit == RateDen * RateDen

None == <<>>

Some(x) == <<x>>

Frac(n, d) == [num |-> n, den |-> d]

\* Config.MAX_POSITION_SIZE = 0.1, the value of the class attribute until it is
\* assigned
MAX_POSITION_SIZE == Frac(1, 10)

\* the attributes of the class Config that are assigned while the program runs
Config == [MAX_POSITION_SIZE |-> MAX_POSITION_SIZE]

\* ------------------------------------------------------------------------
\* Arithmetic helpers
\* ------------------------------------------------------------------------

Abs(x) == IF x < 0 THEN 0 - x ELSE x

Min(a, b) == IF a <= b THEN a ELSE b

RECURSIVE Gcd(_, _)
Gcd(a, b) == IF b = 0 THEN a ELSE Gcd(b, a % b)

\* the rational n/d (d # 0) in lowest terms with a positive denominator
Ratio(n, d) ==
    LET g == Gcd(Abs(n), Abs(d))
        s == IF d < 0 THEN 0 - 1 ELSE 1
    IN  Frac(s * (n \div g), s * (d \div g))

\* int(n/d) for d > 0: Python's int() truncates toward zero
IntDiv(n, d) == IF n >= 0 THEN n \div d ELSE 0 - ((0 - n) \div d)

\* x * (r / RateDen) for a rate numerator r
MulRate(x, r) == (x * r) \div RateDen

\* ------------------------------------------------------------------------
\* Position  (portfolio.py, class Position)
\* ------------------------------------------------------------------------

Position(entry_date, entry_price, quantity, stop_loss, target, symbol, position_type) ==
    [entry_date    |-> entry_date,
     entry_price   |-> entry_price,
     quantity      |-> quantity,
     stop_loss     |-> stop_loss,
     target        |-> target,
     symbol        |-> symbol,
     position_type |-> position_type,
     exit_date     |-> None,
     exit_price    |-> None,
     exit_reason   |-> "None",
     pnl           |-> 0,
     pnl_percent   |-> Frac(0, 1),
     pattern_date  |-> None]

\* Position.close with the LONG formula applied to SHORT positions as well
PositionClose_long_only(self, exit_date, exit_price, reason) ==
    LET diff == exit_price - self.entry_price
    IN  [self EXCEPT !.exit_date   = Some(exit_date),
                     !.exit_price  = Some(exit_price),
                     !.exit_reason = reason,
                     !.pnl         = diff * self.quantity,
                     !.pnl_percent = Ratio(diff * 100, self.entry_price)]

PositionClose(self, exit_date, exit_price, reason) ==
    LET diff == IF self.position_type = "LONG"
                THEN exit_price - self.entry_price
                ELSE self.entry_price - exit_price
    IN  [self EXCEPT !.exit_date   = Some(exit_date),
                     !.exit_price  = Some(exit_price),
                     !.exit_reason = reason,
                     !.pnl         = diff * self.quantity,
                     !.pnl_percent = Ratio(diff * 100, self.entry_price)]

\* ------------------------------------------------------------------------
\* Portfolio  (portfolio.py, class Portfolio)
\* ------------------------------------------------------------------------

Portfolio(initial_capital, commission, slippage) ==
    [initial_capital  |-> initial_capital,
     cash             |-> initial_capital,
     commission       |-> commission,
     slippage         |-> slippage,
     positions        |-> <<>>,
     current_position |-> None,
     equity_curve     |-> <<>>]

\* the outcome of a call: the portfolio after it, the value returned, and
\* whether the call raised instead of returning
Outcome(self, ret, raised) == [self |-> self, ret |-> ret, raised |-> raised]

\* the 2% cash buffer of open_position
BUFFER == Frac(98, 100)

\* open_position's first test, always passed
AlreadyHasPosition_never(self) == FALSE

\* open_position: if self.current_position is not None
AlreadyHasPosition(self) == self.current_position # None

\* the affordable quantity computed from the unslipped entry price
MaxQuantity_unslipped(self, entry_price) ==
    IntDiv(self.cash * BUFFER.num, BUFFER.den * entry_price)

\* open_position: int(cash * 0.98 / (entry_price * (1 + slippage)))
MaxQuantity(self, entry_price) ==
    IntDiv(self.cash * BUFFER.num,
           BUFFER.den * MulRate(entry_price, RateDen + self.slippage))

\* open_position's last test, always passed
CostExceedsCash_never(self, total_cost) == FALSE

\* open_position: if total_cost > self.cash
CostExceedsCash(self, total_cost) == total_cost > self.cash

open_position(self, date, entry_price, stop_loss, target, symbol, position_size, position_type) ==
    IF AlreadyHasPosition(self)
    THEN Outcome(self, FALSE, FALSE)
    ELSE
    LET risk_per_share == IF position_type = "LONG"
                          THEN entry_price - stop_loss
                          ELSE stop_loss - entry_price
    IN
    IF risk_per_share <= 0
    THEN Outcome(self, FALSE, FALSE)
    ELSE
    LET risk_per_trade   == Frac(self.cash * position_size.num, position_size.den)
        quantity_by_risk == IntDiv(risk_per_trade.num, risk_per_trade.den * risk_per_share)
        actual_entry     == MulRate(entry_price, RateDen + self.slippage)
    IN
    \* available_cash / (entry_price * (1 + slippage)) divides by zero
    IF actual_entry = 0
    THEN Outcome(self, FALSE, TRUE)
    ELSE
    LET max_quantity == MaxQuantity(self, entry_price)
        quantity     == Min(quantity_by_risk, max_quantity)
    IN
    IF quantity <= 0
    THEN Outcome(self, FALSE, FALSE)
    ELSE
    LET cost            == quantity * actual_entry
        commission_cost == MulRate(cost, self.commission)
        total_cost      == cost + commission_cost
    IN
    IF CostExceedsCash(self, total_cost)
    THEN Outcome(self, FALSE, FALSE)
    ELSE Outcome([self EXCEPT
                     !.current_position =
                         Some(Position(date, actual_entry, quantity, stop_loss,
                                       target, symbol, position_type)),
                     !.cash = self.cash - total_cost],
                 TRUE, FALSE)

\* close_position that leaves the closed position in current_position
close_position_keeps(self, date, exit_price, reason) ==
    IF self.current_position = None
    THEN Outcome(self, FALSE, FALSE)
    ELSE
    LET pos             == self.current_position[1]
        actual_exit     == MulRate(exit_price, RateDen - self.slippage)
        proceeds        == pos.quantity * actual_exit
        commission_cost == MulRate(proceeds, self.commission)
        net_proceeds    == proceeds - commission_cost
    IN  Outcome([self EXCEPT
                    !.cash = self.cash + net_proceeds,
                    !.positions = Append(self.positions,
                                         PositionClose(pos, date, actual_exit, reason))],
                TRUE, FALSE)

\* close_position that reports success when there is nothing to close
close_position_flat_true(self, date, exit_price, reason) ==
    IF self.current_position = None
    THEN Outcome(self, TRUE, FALSE)
    ELSE
    LET pos             == self.current_position[1]
        actual_exit     == MulRate(exit_price, RateDen - self.slippage)
        proceeds        == pos.quantity * actual_exit
        commission_cost == MulRate(proceeds, self.commission)
        net_proceeds    == proceeds - commission_cost
    IN  Outcome([self EXCEPT
                    !.cash = self.cash + net_proceeds,
                    !.positions = Append(self.positions,
                                         PositionClose(pos, date, actual_exit, reason)),
                    !.current_position = None],
                TRUE, FALSE)

close_position(self, date, exit_price, reason) ==
    IF self.current_position = None
    THEN Outcome(self, FALSE, FALSE)
    ELSE
    LET pos             == self.current_position[1]
        actual_exit     == MulRate(exit_price, RateDen - self.slippage)
        proceeds        == pos.quantity * actual_exit
        commission_cost == MulRate(proceeds, self.commission)
        net_proceeds    == proceeds - commission_cost
    IN  Outcome([self EXCEPT
                    !.cash = self.cash + net_proceeds,
                    !.positions = Append(self.positions,
                                         PositionClose(pos, date, actual_exit, reason)),
                    !.current_position = None],
                TRUE, FALSE)

\* truthiness of a price: None and 0 are falsy
Truthy(current_price) == current_price # None /\ current_price[1] # 0

\* update_equity that records nothing while no position is open
update_equity_when_open(self, date, current_price) ==
    IF self.current_position # None
    THEN LET equity == IF Truthy(current_price)
                       THEN self.cash + self.current_position[1].quantity * current_price[1]
                       ELSE self.cash
         IN  [self EXCEPT !.equity_curve =
                  Append(self.equity_curve,
                         [date |-> date, equity |-> equity, cash |-> self.cash])]
    ELSE self

update_equity(self, date, current_price) ==
    LET equity == IF self.current_position # None /\ Truthy(current_price)
                  THEN self.cash + self.current_position[1].quantity * current_price[1]
                  ELSE self.cash
    IN  [self EXCEPT !.equity_curve =
             Append(self.equity_curve,
                    [date |-> date, equity |-> equity, cash |-> self.cash])]

\* ------------------------------------------------------------------------
\* The Portfolio driven directly through its methods, in any order and with
\* any arguments (bounded): open_position, close_position, update_equity.
\* `call` records the last call, its arguments and what it returned; `opens`
\* and `closes` count the calls that returned True.
\* ------------------------------------------------------------------------

Prices == {0, 10 * Unit, 11 * Unit}

Rates == {0, 1, 3}

InitialCapitals == {1000 * Unit}

PositionSizes == {Frac(1, 100), Frac(1, 1)}

Sides == {"LONG", "SHORT"}

Reasons == {"Stop Loss", "End of Data"}

NoCall == [op |-> "none", args |-> <<>>, ret |-> FALSE, raised |-> FALSE]

NoRow == <<>>

InitPortfolio ==
    /\ \E initial_capital \in InitialCapitals, commission \in Rates :
           portfolio = Portfolio(initial_capital, commission, 1)
    /\ call = NoCall
    /\ opens = 0
    /\ closes = 0
    /\ calls = 0
    /\ config = Config
    /\ pc = "api"
    /\ i = 0
    /\ row = NoRow
    /\ strategy = None
    /\ df = <<>>
    /\ session = None

CallOpen ==
    /\ calls < MaxCalls
    /\ \E entry_price \in Prices, stop_loss \in Prices, position_size \in PositionSizes,
          position_type \in Sides :
          LET date == calls
              target == IF position_type = "LONG" THEN 12 * Unit ELSE 9 * Unit
              out == open_position(portfolio, date, entry_price, stop_loss, target,
                                   "STOCK", position_size, position_type)
          IN  /\ portfolio' = out.self
              /\ call' = [op |-> "open_position",
                          args |-> [date |-> date, entry_price |-> entry_price,
                                    stop_loss |-> stop_loss, target |-> target,
                                    position_size |-> position_size,
                                    position_type |-> position_type],
                          ret |-> out.ret, raised |-> out.raised]
              /\ opens' = IF out.ret THEN opens + 1 ELSE opens
    /\ calls' = calls + 1
    /\ UNCHANGED <<closes, pc, i, row, config>>
    /\ UNCHANGED generatorVars

CallClose ==
    /\ calls < MaxCalls
    /\ \E exit_price \in Prices, reason \in Reasons :
          LET date == calls
              out == close_position(portfolio, date, exit_price, reason)
          IN  /\ portfolio' = out.self
              /\ call' = [op |-> "close_position",
                          args |-> [date |-> date, exit_price |-> exit_price,
                                    reason |-> reason],
                          ret |-> out.ret, raised |-> out.raised]
              /\ closes' = IF out.ret THEN closes + 1 ELSE closes
    /\ calls' = calls + 1
    /\ UNCHANGED <<opens, pc, i, row, config>>
    /\ UNCHANGED generatorVars

CallUpdateEquity ==
    /\ calls < MaxCalls
    /\ \E current_price \in {None, Some(0), Some(10 * Unit)} :
          LET date == calls
          IN  /\ portfolio' = update_equity(portfolio, date, current_price)
              /\ call' = [op |-> "update_equity",
                          args |-> [date |-> date, current_price |-> current_price],
                          ret |-> FALSE, raised |-> FALSE]
    /\ calls' = calls + 1
    /\ UNCHANGED <<opens, closes, pc, i, row, config>>
    /\ UNCHANGED generatorVars

NextPortfolio == CallOpen \/ CallClose \/ CallUpdateEquity

SpecPortfolio == InitPortfolio /\ [][NextPortfolio]_vars

\* ------------------------------------------------------------------------
\* BacktestEngine.run  (engine.py): the bar loop and the end-of-data close.
\* The annotated series df_signals is produced by the strategy before the
\* loop; the model draws its rows one at a time as the loop reaches them and
\* lets the series end after any number of rows up to MaxBars.  The index
\* of the series (the timestamps) is 0, 1, 2, ...: ordered and unique.
\* `row` is the last row the loop processed, `i` the number of rows processed.
\* NaN / NaT cells are None.
\* ------------------------------------------------------------------------

Row(date, bar, sig) ==
    [date         |-> date,
     High         |-> bar.High,
     Low          |-> bar.Low,
     Close        |-> bar.Close,
     signal       |-> sig.signal,
     entry_price  |-> sig.entry_price,
     stop_loss    |-> sig.stop_loss,
     target       |-> sig.target,
     pattern_date |-> IF sig.has_pattern_date THEN Some(date - 1) ELSE None]

Bar(High, Low, Close) == [High |-> High * Unit, Low |-> Low * Unit, Close |-> Close * Unit]

Signal(signal, entry_price, stop_loss, target, has_pattern_date) ==
    [signal |-> signal, entry_price |-> Some(entry_price * Unit),
     stop_loss |-> Some(stop_loss * Unit), target |-> Some(target * Unit),
     has_pattern_date |-> has_pattern_date]

NoSignal ==
    [signal |-> 0, entry_price |-> None, stop_loss |-> None, target |-> None,
     has_pattern_date |-> FALSE]

\* the bars the model draws from: one that touches neither 9 nor 11, one
\* that touches both, and one for each alone
Bars == {Bar(10, 10, 10), Bar(11, 9, 10), Bar(11, 10, 11), Bar(10, 9, 9)}

\* the signals the model draws from: none, a LONG and a SHORT entry at 10
\* with stop and target at 9 and 11, a LONG entry without a pattern
\* timestamp, a LONG entry whose stop is above the entry, and a SHORT entry
\* at price 0
Signals ==
    {NoSignal,
     Signal(1, 10, 9, 11, TRUE),
     Signal(1, 10, 9, 11, FALSE),
     Signal(0 - 1, 10, 11, 9, TRUE),
     Signal(1, 10, 11, 11, TRUE),
     Signal(0 - 1, 0, 11, 9, TRUE)}

\* lines 54-66 with the target tested before the stop-loss
ExitConditions_target_first(self, r, date) ==
    LET pos == self.current_position[1]
    IN  IF pos.position_type = "LONG"
        THEN IF r.High >= pos.target
             THEN close_position(self, date, pos.target, "Target").self
             ELSE IF r.Low <= pos.stop_loss
             THEN close_position(self, date, pos.stop_loss, "Stop Loss").self
             ELSE self
        ELSE IF pos.position_type = "SHORT"
        THEN IF r.Low <= pos.target
             THEN close_position(self, date, pos.target, "Target").self
             ELSE IF r.High >= pos.stop_loss
             THEN close_position(self, date, pos.stop_loss, "Stop Loss").self
             ELSE self
        ELSE self

\* lines 54-66: the exit conditions of the open position on row r
ExitConditions(self, r, date) ==
    LET pos == self.current_position[1]
    IN  IF pos.position_type = "LONG"
        THEN IF r.Low <= pos.stop_loss
             THEN close_position(self, date, pos.stop_loss, "Stop Loss").self
             ELSE IF r.High >= pos.target
             THEN close_position(self, date, pos.target, "Target").self
             ELSE self
        ELSE IF pos.position_type = "SHORT"
        THEN IF r.High >= pos.stop_loss
             THEN close_position(self, date, pos.stop_loss, "Stop Loss").self
             ELSE IF r.Low <= pos.target
             THEN close_position(self, date, pos.target, "Target").self
             ELSE self
        ELSE self

\* lines 46-53: exits are tested when a position is open and the row is not
\* the candle it was entered on
ExitCheck(self, r, date) ==
    IF self.current_position # None
    THEN IF self.current_position[1].entry_date # date
         THEN ExitConditions(self, r, date)
         ELSE self
    ELSE self

\* lines 68-82 with every signal entered as a LONG
EntryCheck_always_long(self, r, date, symbol) ==
    IF r.signal # 0 /\ self.current_position = None
    THEN LET out == open_position(self, date, r.entry_price[1], r.stop_loss[1],
                                  r.target[1], symbol, config.MAX_POSITION_SIZE, "LONG")
         IN  IF out.ret /\ out.self.current_position # None /\ r.pattern_date # None
             THEN Outcome([out.self EXCEPT
                              !.current_position[1].pattern_date = r.pattern_date],
                          TRUE, FALSE)
             ELSE out
    ELSE Outcome(self, FALSE, FALSE)

\* lines 68-82: the entry on row r; the outcome's ret is `success`, and
\* raised is set when open_position raised
EntryCheck(self, r, date, symbol) ==
    IF r.signal # 0 /\ self.current_position = None
    THEN LET position_type == IF r.signal = 1 THEN "LONG" ELSE "SHORT"
             out == open_position(self, date, r.entry_price[1], r.stop_loss[1],
                                  r.target[1], symbol, config.MAX_POSITION_SIZE,
                                  position_type)
         IN  IF out.ret /\ out.self.current_position # None /\ r.pattern_date # None
             THEN Outcome([out.self EXCEPT
                              !.current_position[1].pattern_date = r.pattern_date],
                          TRUE, FALSE)
             ELSE out
    ELSE Outcome(self, FALSE, FALSE)

\* the loop body with the entry made before the exits are tested, and the
\* exits tested on the entry candle as well
RunBar_entry_first(self, r, symbol) ==
    LET date    == r.date
        entered == EntryCheck(self, r, date, symbol)
        exited  == IF entered.self.current_position # None
                   THEN ExitConditions(entered.self, r, date)
                   ELSE entered.self
    IN  IF entered.raised
        THEN entered
        ELSE Outcome(update_equity(exited, date, Some(r.Close)), FALSE, FALSE)

\* lines 43-86: one iteration of the loop, on row r
RunBar(self, r, symbol) ==
    LET date    == r.date
        exited  == ExitCheck(self, r, date)
        entered == EntryCheck(exited, r, date, symbol)
    IN  IF entered.raised
        THEN entered
        ELSE Outcome(update_equity(entered.self, date, Some(r.Close)), FALSE, FALSE)

\* lines 88-95 without the close
\* ------------------------------------------------------------------------
\* BacktestEngine._compile_results.  Ratios (rates, means, percentages) are
\* reduced fractions; 0 is Frac(0, 1).
\* ------------------------------------------------------------------------

Zero == Frac(0, 1)

\* a/b < c/d for a, c >= 0 and b, d > 0, by continued fractions: no product is
\* formed, so prices of any size compare without overflow
RECURSIVE FracLess(_, _, _, _)
FracLess(a, b, c, d) ==
    IF a \div b # c \div d
    THEN a \div b < c \div d
    ELSE IF c % d = 0
    THEN FALSE
    ELSE IF a % b = 0
    THEN TRUE
    ELSE FracLess(d, c % d, b, a % b)

\* x < y for fractions with positive denominators
Less(x, y) ==
    IF x.num < 0
    THEN IF y.num >= 0 THEN TRUE ELSE FracLess(0 - y.num, y.den, 0 - x.num, x.den)
    ELSE IF y.num < 0 THEN FALSE ELSE FracLess(x.num, x.den, y.num, y.den)

\* trades_df['pnl'] > 0
IsWinner(trade) == trade.pnl > 0

\* a variant of the losers' filter that takes in the trades with no pnl
IsLoser_or_flat(trade) == trade.pnl <= 0

\* trades_df['pnl'] < 0
IsLoser(trade) == trade.pnl < 0

\* trades['pnl'].sum() over the first k trades
RECURSIVE SumPnl(_, _)
SumPnl(trades, k) == IF k = 0 THEN 0 ELSE SumPnl(trades, k - 1) + trades[k].pnl

\* trades['pnl'].mean()
MeanPnl(trades) == Ratio(SumPnl(trades, Len(trades)), Len(trades))

\* a variant of the running maximum: the first equity of the curve
Peak_first(equity_curve, k) == equity_curve[1].equity

\* equity_df['equity'].cummax() at row k
RECURSIVE Peak(_, _)
Peak(equity_curve, k) ==
    IF k = 1
    THEN equity_curve[1].equity
    ELSE LET before == Peak(equity_curve, k - 1)
         IN  IF equity_curve[k].equity > before THEN equity_curve[k].equity ELSE before

\* (equity - peak) / peak * 100 at row k
Drawdown(equity_curve, k) ==
    Ratio((equity_curve[k].equity - Peak(equity_curve, k)) * 100, Peak(equity_curve, k))

\* equity_df['drawdown'].min() over the first k rows
RECURSIVE MinDrawdown(_, _)
MinDrawdown(equity_curve, k) ==
    IF k = 1
    THEN Drawdown(equity_curve, 1)
    ELSE LET before == MinDrawdown(equity_curve, k - 1)
             here   == Drawdown(equity_curve, k)
         IN  IF Less(here, before) THEN here ELSE before

compile_results(self) ==
    LET trades_df == self.positions
        equity_df == self.equity_curve
    IN  IF trades_df = <<>>
        THEN [initial_capital |-> self.initial_capital,
              final_capital   |-> self.cash,
              total_trades    |-> 0,
              winning_trades  |-> 0,
              losing_trades   |-> 0,
              win_rate        |-> Zero,
              total_pnl       |-> 0,
              total_return    |-> Zero,
              max_drawdown    |-> Zero,
              avg_win         |-> Zero,
              avg_loss        |-> Zero,
              profit_factor   |-> Zero]
        ELSE LET total_trades   == Len(trades_df)
                 winners        == SelectSeq(trades_df, IsWinner)
                 losers         == SelectSeq(trades_df, IsLoser)
                 winning_trades == Len(winners)
                 losing_trades  == Len(losers)
                 avg_win        == IF winning_trades > 0 THEN MeanPnl(winners) ELSE Zero
                 avg_loss       == IF losing_trades > 0 THEN MeanPnl(losers) ELSE Zero
             IN  [initial_capital |-> self.initial_capital,
                  final_capital   |-> self.cash,
                  total_trades    |-> total_trades,
                  winning_trades  |-> winning_trades,
                  losing_trades   |-> losing_trades,
                  win_rate        |-> Ratio(winning_trades * 100, total_trades),
                  total_pnl       |-> SumPnl(trades_df, total_trades),
                  total_return    |-> Ratio((self.cash - self.initial_capital) * 100,
                                            self.initial_capital),
                  max_drawdown    |-> MinDrawdown(equity_df, Len(equity_df)),
                  avg_win         |-> avg_win,
                  avg_loss        |-> avg_loss,
                  profit_factor   |-> IF avg_loss.num # 0
                                      THEN Ratio(Abs(avg_win.num * avg_loss.den),
                                                 Abs(avg_win.den * avg_loss.num))
                                      ELSE Zero]

\* a variant of the force-close that records the equity after it
CloseRemaining_then_equity(self, last_row) ==
    IF self.current_position # None
    THEN update_equity(close_position(self, last_row.date, last_row.Close, "End of Data").self,
                       last_row.date, Some(last_row.Close))
    ELSE self

CloseRemaining_skipped(self, last_row) == self

\* lines 88-95: close any remaining open position at the last row's Close
CloseRemaining(self, last_row) ==
    IF self.current_position # None
    THEN close_position(self, last_row.date, last_row.Close, "End of Data").self
    ELSE self

\* the commission rates the engine is constructed with: at the higher one
\* every entry of the model fails the total-cost test
EngineRates == {1, 3}

Init ==
    /\ \E commission \in EngineRates :
           portfolio = Portfolio(1000 * Unit, commission, 1)
    /\ call = NoCall
    /\ opens = 0
    /\ closes = 0
    /\ calls = 0
    /\ config = Config
    /\ pc = "loop"
    /\ i = 0
    /\ row = NoRow
    /\ strategy = None
    /\ df = <<>>
    /\ session = None

\* one iteration of `for i in range(len(df_signals))`
BarStep ==
    /\ pc = "loop"
    /\ i < MaxBars
    /\ \E bar \in Bars, sig \in Signals :
          LET r   == Row(i, bar, sig)
              out == RunBar(portfolio, r, "STOCK")
          IN  /\ row' = r
              /\ portfolio' = out.self
              /\ pc' = IF out.raised THEN "raised" ELSE "loop"
    /\ i' = i + 1
    /\ UNCHANGED <<call, opens, closes, calls, config>>
    /\ UNCHANGED generatorVars

\* the loop is over (the series had i rows): lines 88-100; `call` records what
\* run() returns
EndOfData ==
    /\ pc = "loop"
    /\ portfolio' = CloseRemaining(portfolio, row)
    /\ call' = [op |-> "run", args |-> <<>>, ret |-> compile_results(portfolio'),
                raised |-> FALSE]
    /\ pc' = "done"
    /\ UNCHANGED <<opens, closes, calls, i, row, config>>
    /\ UNCHANGED generatorVars

Next == BarStep \/ EndOfData

Spec == Init /\ [][Next]_vars

\* ------------------------------------------------------------------------
\* Claims about the Portfolio methods (SpecPortfolio)
\* ------------------------------------------------------------------------

IsOpen(self) == self.current_position # None

\* this step is a call of the method `op`
Called(op) == calls' = calls + 1 /\ call'.op = op

\* x * (1 + r/RateDen) and x * (1 - r/RateDen) for a price x (a multiple of Unit)
Plus(x, r) == (x \div RateDen) * (RateDen + r)

Minus(x, r) == (x \div RateDen) * (RateDen - r)

\* the side-consistent risk per share of an open_position call
SideRisk(a) ==
    IF a.position_type = "LONG" THEN a.entry_price - a.stop_loss
                                ELSE a.stop_loss - a.entry_price

\* min(floor(cash x fraction / risk), floor(cash x 0.98 / (entry x (1+slippage))))
SizedQuantity(self, a) ==
    Min((self.cash * a.position_size.num) \div (a.position_size.den * SideRisk(a)),
        (self.cash * 98) \div (100 * Plus(a.entry_price, self.slippage)))

\* quantity x entry x (1+slippage) x (1+commission)
TotalCost(self, a, quantity) ==
    quantity * (a.entry_price \div Unit)
             * (RateDen + self.slippage) * (RateDen + self.commission)

\* C1: at most one position is open after any sequence of open_position and
\* close_position calls: successful opens minus successful closes is 0 or 1,
\* and current_position is non-null exactly when the difference is 1.
C1_AtMostOneOpen ==
    /\ opens - closes \in {0, 1}
    /\ IsOpen(portfolio) <=> (opens - closes = 1)

\* a second position was opened after the first was closed
C1_Witness ==
    /\ opens = 2
    /\ closes = 1
    /\ IsOpen(portfolio)

\* the failing cases of open_position, from the portfolio before the call and
\* the call's arguments
AlreadyOpen(self, a) == IsOpen(self)

BadRisk(self, a) == ~IsOpen(self) /\ SideRisk(a) <= 0

NoQuantity(self, a) ==
    /\ ~IsOpen(self)
    /\ SideRisk(a) > 0
    /\ a.entry_price # 0
    /\ SizedQuantity(self, a) <= 0

TooCostly(self, a) ==
    /\ ~IsOpen(self)
    /\ SideRisk(a) > 0
    /\ a.entry_price # 0
    /\ SizedQuantity(self, a) > 0
    /\ TotalCost(self, a, SizedQuantity(self, a)) > self.cash

\* C2: open_position returns False and leaves cash, current_position, the
\* trade history and the equity curve unchanged when a position is already
\* open, when the side-consistent risk per share is <= 0, when the computed
\* quantity is <= 0, and when the total cost exceeds cash.
C2_FailedOpenIsNoOp ==
    [][(/\ Called("open_position")
        /\ \/ AlreadyOpen(portfolio, call'.args)
           \/ BadRisk(portfolio, call'.args)
           \/ NoQuantity(portfolio, call'.args)
           \/ TooCostly(portfolio, call'.args))
       => /\ call'.ret = FALSE
          /\ ~call'.raised
          /\ portfolio' = portfolio]_vars

\* an open_position call has just failed because the total cost exceeds cash,
\* on a portfolio that already has a trade and an equity entry to preserve
C2_Witness ==
    /\ call.op = "open_position"
    /\ ~call.ret
    /\ TooCostly(portfolio, call.args)
    /\ portfolio.positions # <<>>
    /\ portfolio.equity_curve # <<>>

\* the fields a Position has from its creation
SamePosition(p, q) ==
    /\ p.entry_date = q.entry_date
    /\ p.entry_price = q.entry_price
    /\ p.quantity = q.quantity
    /\ p.stop_loss = q.stop_loss
    /\ p.target = q.target
    /\ p.symbol = q.symbol
    /\ p.position_type = q.position_type
    /\ p.pattern_date = q.pattern_date

\* C3: close_position called while a position is open returns True, appends
\* exactly that position to the end of the trade history (earlier entries
\* unchanged, in the same order) and sets current_position to None.
C3_CloseAppendsOneTrade ==
    [][(Called("close_position") /\ IsOpen(portfolio))
       => /\ call'.ret = TRUE
          /\ Len(portfolio'.positions) = Len(portfolio.positions) + 1
          /\ SubSeq(portfolio'.positions, 1, Len(portfolio.positions)) = portfolio.positions
          /\ SamePosition(portfolio'.positions[Len(portfolio'.positions)],
                          portfolio.current_position[1])
          /\ portfolio'.current_position = None]_vars

\* a close has just succeeded on a portfolio that already had a closed trade
C3_Witness ==
    /\ call.op = "close_position"
    /\ call.ret
    /\ Len(portfolio.positions) = 2
    /\ portfolio.positions[1] # portfolio.positions[2]

\* C4: close_position called while no position is open returns False and
\* changes nothing.
C4_CloseWhenFlatIsNoOp ==
    [][(Called("close_position") /\ ~IsOpen(portfolio))
       => /\ call'.ret = FALSE
          /\ portfolio' = portfolio]_vars

\* a close has just been refused on a portfolio with a trade and an equity
\* entry to preserve
C4_Witness ==
    /\ call.op = "close_position"
    /\ ~call.ret
    /\ portfolio.positions # <<>>
    /\ portfolio.equity_curve # <<>>

\* C9: a successful open_position sizes the position at
\* min(floor(cash x fraction / risk), floor(cash x 0.98 / (entry x (1+slippage))))
\* from the cash before the call, records entry x (1+slippage) as the entry
\* price and debits exactly quantity x entry x (1+slippage) x (1+commission).
C9_OpenSizingAndCost ==
    [][(Called("open_position") /\ call'.ret)
       => LET a   == call'.args
              q   == SizedQuantity(portfolio, a)
              pos == portfolio'.current_position[1]
          IN  /\ pos.quantity = q
              /\ pos.entry_price = Plus(a.entry_price, portfolio.slippage)
              /\ portfolio'.cash = portfolio.cash - TotalCost(portfolio, a, q)]_vars

\* a position has just been opened whose size was set by the affordability
\* limit, not by the risk limit, with non-zero commission
C9_Witness ==
    /\ call.op = "open_position"
    /\ call.ret
    /\ portfolio.commission > 0
    /\ LET a     == call.args
           q     == portfolio.current_position[1].quantity
           cash0 == portfolio.cash + TotalCost(portfolio, a, q)
       IN  (q + 1) * SideRisk(a) * a.position_size.den <= cash0 * a.position_size.num

\* the realized difference per share of a closed trade
TradeDiff(t) ==
    IF t.position_type = "LONG" THEN t.exit_price[1] - t.entry_price
                                ELSE t.entry_price - t.exit_price[1]

\* the reduced fraction f equals n/d (d > 0)
FracIs(f, n, d) ==
    /\ f.den > 0
    /\ d % f.den = 0
    /\ f.num * (d \div f.den) = n

\* C10: a successful close_position credits exactly
\* quantity x exit x (1-slippage) x (1-commission), records exit x (1-slippage)
\* as the exit price, pnl = (exit-entry) x quantity for LONG and
\* (entry-exit) x quantity for SHORT on the slipped prices, and pnl_percent =
\* 100 x that difference / entry price.
C10_CloseProceedsAndPnl ==
    [][(Called("close_position") /\ call'.ret)
       => LET a   == call'.args
              pos == portfolio.current_position[1]
              t   == portfolio'.positions[Len(portfolio'.positions)]
          IN  /\ portfolio'.cash = portfolio.cash
                    + pos.quantity * (a.exit_price \div Unit)
                        * (RateDen - portfolio.slippage) * (RateDen - portfolio.commission)
              /\ t.exit_price = Some(Minus(a.exit_price, portfolio.slippage))
              /\ t.exit_date = Some(a.date)
              /\ t.exit_reason = a.reason
              /\ t.pnl = TradeDiff(t) * t.quantity
              /\ FracIs(t.pnl_percent, 100 * TradeDiff(t), t.entry_price)]_vars

\* a SHORT trade has just been closed at a profit and a non-integer percentage
C10_Witness ==
    /\ call.op = "close_position"
    /\ call.ret
    /\ LET t == portfolio.positions[Len(portfolio.positions)]
       IN  /\ t.position_type = "SHORT"
           /\ t.pnl > 0
           /\ t.pnl_percent.den > 1
           /\ portfolio.commission > 0

\* ------------------------------------------------------------------------
\* Claims about the bar loop of BacktestEngine.run (Spec)
\* ------------------------------------------------------------------------

\* this step is one iteration of the bar loop, on row'
BarProcessed == i' = i + 1

\* this step is the code after the loop
LoopLeft == pc = "loop" /\ pc' = "done"

LastTrade(self) == self.positions[Len(self.positions)]

\* row r satisfies both the stop-loss and the target condition of position p
BothTrigger(p, r) ==
    IF p.position_type = "LONG"
    THEN r.Low <= p.stop_loss /\ r.High >= p.target
    ELSE r.High >= p.stop_loss /\ r.Low <= p.target

\* row r satisfies the stop-loss or the target condition of position p
AnyTrigger(p, r) ==
    IF p.position_type = "LONG"
    THEN r.Low <= p.stop_loss \/ r.High >= p.target
    ELSE r.High >= p.stop_loss \/ r.Low <= p.target

\* C5: in the bar loop at most one exit happens per bar, and when a bar
\* satisfies both the stop-loss and the target condition of the open position
\* the position is closed with reason Stop Loss at the stop-loss level.
C5_StopLossFirst ==
    [][BarProcessed
       => /\ Len(portfolio'.positions) <= Len(portfolio.positions) + 1
          /\ (IsOpen(portfolio) /\ BothTrigger(portfolio.current_position[1], row'))
             => /\ Len(portfolio'.positions) = Len(portfolio.positions) + 1
                /\ LET pos == portfolio.current_position[1]
                       t   == portfolio'.positions[Len(portfolio.positions) + 1]
                   IN  /\ SamePosition(t, pos)
                       /\ t.exit_reason = "Stop Loss"
                       /\ t.exit_price = Some(Minus(pos.stop_loss, portfolio.slippage))
                       /\ t.exit_date = Some(row'.date)]_vars

\* the last processed bar satisfied both conditions of a SHORT position,
\* which it closed
C5_Witness ==
    /\ i > 0
    /\ portfolio.positions # <<>>
    /\ LastTrade(portfolio).exit_date = Some(row.date)
    /\ LastTrade(portfolio).position_type = "SHORT"
    /\ BothTrigger(LastTrade(portfolio), row)

\* C6: no position is closed by a stop-loss or target exit on the bar on
\* which it was opened: every trade with exit reason Stop Loss or Target has
\* an exit timestamp strictly later than its entry timestamp.
C6_NoExitOnEntryBar ==
    \A k \in 1..Len(portfolio.positions) :
        portfolio.positions[k].exit_reason \in {"Stop Loss", "Target"}
            => portfolio.positions[k].exit_date[1] > portfolio.positions[k].entry_date

\* a position was opened on the last processed bar, whose own low or high
\* touches its stop or target, and is still open
C6_Witness ==
    /\ pc = "loop"
    /\ IsOpen(portfolio)
    /\ portfolio.current_position[1].entry_date = row.date
    /\ AnyTrigger(portfolio.current_position[1], row)

\* C7: the run ends with the portfolio flat; a position still open after the
\* last bar is closed exactly once, at the final bar's close price (before
\* slippage), with the final bar's timestamp and reason End of Data.  Every
\* step of the run processes the next bar of the series or ends the run, so
\* a run over a finite series ends.
C7_EndsFlat ==
    /\ [](pc \in {"done", "raised"} => ~IsOpen(portfolio))
    /\ [][LoopLeft
          => IF IsOpen(portfolio)
             THEN /\ Len(portfolio'.positions) = Len(portfolio.positions) + 1
                  /\ SubSeq(portfolio'.positions, 1, Len(portfolio.positions))
                        = portfolio.positions
                  /\ SamePosition(LastTrade(portfolio'), portfolio.current_position[1])
                  /\ LastTrade(portfolio').exit_price
                        = Some(Minus(row.Close, portfolio.slippage))
                  /\ LastTrade(portfolio').exit_date = Some(row.date)
                  /\ LastTrade(portfolio').exit_reason = "End of Data"
                  /\ row.date = i - 1
             ELSE portfolio' = portfolio]_vars
    /\ [][pc = "loop" /\ (BarProcessed \/ pc' \in {"done", "raised"})]_vars

\* the run has ended after closing, at end of data, a position that an
\* earlier bar had opened
C7_Witness ==
    /\ pc = "done"
    /\ portfolio.positions # <<>>
    /\ LastTrade(portfolio).exit_reason = "End of Data"
    /\ LastTrade(portfolio).entry_date < row.date

\* C8: after a run over n bars the equity curve has exactly n entries, one
\* per bar in bar order with that bar's timestamp; entry k records the cash
\* after bar k's exit and entry processing and equity = cash + quantity x
\* close_k when a position is open after that processing, else equity = cash.
C8_EquityPerBar ==
    /\ [](pc \in {"loop", "done"}
          => /\ Len(portfolio.equity_curve) = i
             /\ \A k \in 1..i : portfolio.equity_curve[k].date = k - 1)
    /\ [][(BarProcessed /\ pc' = "loop")
          => /\ SubSeq(portfolio'.equity_curve, 1, i) = portfolio.equity_curve
             /\ LET e == portfolio'.equity_curve[i']
                IN  /\ e.date = row'.date
                    /\ e.cash = portfolio'.cash
                    /\ e.equity = IF IsOpen(portfolio')
                                  THEN portfolio'.cash
                                       + portfolio'.current_position[1].quantity * row'.Close
                                  ELSE portfolio'.cash]_vars

\* a run of three bars has ended: a position was open after the first bar
\* and closed by an exit on a later bar, and an entry recorded with no
\* position open follows one recorded with a position open
C8_Witness ==
    /\ pc = "done"
    /\ i = 3
    /\ Len(portfolio.equity_curve) = 3
    /\ portfolio.equity_curve[1].equity # portfolio.equity_curve[1].cash
    /\ portfolio.equity_curve[3].equity = portfolio.equity_curve[3].cash
    /\ portfolio.positions # <<>>
    /\ portfolio.positions[1].exit_reason \in {"Stop Loss", "Target"}

\* ------------------------------------------------------------------------
\* Claims about slippage and cash (SpecPortfolio, Spec)
\* ------------------------------------------------------------------------

\* the nominal entry price of trade t opened under slippage rate r: the
\* price x with x * (1 + r/RateDen) = t.entry_price
NominalEntry(t, r) == (t.entry_price \div (RateDen + r)) * RateDen

\* trade t as Position.close records it when the fills are the nominal
\* prices (slippage 0): same side, quantity and dates
ZeroSlippageTrade(t, entry_price, exit_price) ==
    PositionClose(Position(t.entry_date, entry_price, t.quantity, t.stop_loss,
                           t.target, t.symbol, t.position_type),
                  t.exit_date[1], exit_price, t.exit_reason)

\* C11: slippage is applied unfavourably for LONG and SHORT alike: for the
\* same side, quantity, nominal entry price and nominal exit price, the pnl
\* of a trade closed under a positive slippage rate is never greater than
\* its pnl under zero slippage.
C11_SlippageNeverFavourable ==
    (call.op = "close_position" /\ call.ret /\ portfolio.slippage > 0)
    => LET t == LastTrade(portfolio)
           nominal == ZeroSlippageTrade(t, NominalEntry(t, portfolio.slippage),
                                        call.args.exit_price)
       IN  t.pnl <= nominal.pnl

\* the same statement for LONG trades only
C11_LongSlippageUnfavourable ==
    (call.op = "close_position" /\ call.ret /\ portfolio.slippage > 0
        /\ LastTrade(portfolio).position_type = "LONG")
    => LET t == LastTrade(portfolio)
           nominal == ZeroSlippageTrade(t, NominalEntry(t, portfolio.slippage),
                                        call.args.exit_price)
       IN  t.pnl <= nominal.pnl

\* C12: in every state of a backtest run over bars with non-negative prices
\* the portfolio's cash is non-negative (commission and slippage rates
\* between 0 and 1).
C12_CashNonNegative == portfolio.cash >= 0

\* a position is open that took all but a twentieth of the initial capital
C12_Witness ==
    /\ pc = "loop"
    /\ IsOpen(portfolio)
    /\ portfolio.cash * 20 < portfolio.initial_capital
    /\ portfolio.commission > 0

\* ------------------------------------------------------------------------
\* Claims about the entries of the bar loop (Spec)
\* ------------------------------------------------------------------------

\* no position is open after the exit check of row r on portfolio self
FlatAfterExitCheck(self, r) ==
    \/ ~IsOpen(self)
    \/ /\ self.current_position[1].entry_date # r.date
       /\ AnyTrigger(self.current_position[1], r)

\* the arguments of the open_position call the loop makes for row r
EntryArgs(r) ==
    [date          |-> r.date,
     entry_price   |-> r.entry_price[1],
     stop_loss     |-> r.stop_loss[1],
     target        |-> r.target[1],
     position_size |-> config.MAX_POSITION_SIZE,
     position_type |-> IF r.signal = 1 THEN "LONG" ELSE "SHORT"]

\* self holds a position entered on row r
EnteredOn(self, r) == IsOpen(self) /\ self.current_position[1].entry_date = r.date

\* C13: the bar loop attempts an entry on a bar exactly when the bar has a
\* non-NONE signal and no position is open after that bar's exit check (so
\* a bar may exit and re-enter).  The attempt uses the bar's entry_price,
\* stop_loss and target, LONG for signal 1 and SHORT for signal -1, and the
\* opened position carries the bar's pattern timestamp.  A signal on a bar
\* where the position stays open is dropped: the position is left as it is,
\* and every position is entered from the row of its own entry bar.
C13_EntryAttempts ==
    [][BarProcessed
       => LET r == row'
              a == EntryArgs(r)
              attempted == r.signal # 0 /\ FlatAfterExitCheck(portfolio, r)
          IN  /\ EnteredOn(portfolio', r)
                   => /\ attempted
                      /\ LET p == portfolio'.current_position[1]
                         IN  /\ p.position_type = a.position_type
                             /\ p.entry_price = Plus(a.entry_price, portfolio.slippage)
                             /\ p.stop_loss = a.stop_loss
                             /\ p.target = a.target
                             /\ p.pattern_date = r.pattern_date
              /\ pc' = "raised" => attempted /\ a.entry_price = 0
              /\ (attempted /\ pc' # "raised" /\ ~EnteredOn(portfolio', r))
                   => /\ ~IsOpen(portfolio')
                      /\ \/ BadRisk(portfolio', a)
                         \/ NoQuantity(portfolio', a)
                         \/ TooCostly(portfolio', a)
              /\ ~attempted
                   => /\ pc' = "loop"
                      /\ IsOpen(portfolio) /\ ~FlatAfterExitCheck(portfolio, r)
                           => portfolio'.current_position = portfolio.current_position
                      /\ IsOpen(portfolio')
                           => portfolio'.current_position = portfolio.current_position]_vars

\* a bar closed the open position at its stop and a LONG position was
\* entered on the same bar, carrying the bar's pattern timestamp
C13_Witness ==
    /\ pc = "loop"
    /\ row # NoRow
    /\ Len(portfolio.positions) > 0
    /\ LastTrade(portfolio).exit_date = Some(row.date)
    /\ EnteredOn(portfolio, row)
    /\ portfolio.current_position[1].pattern_date = Some(row.date - 1)

\* ------------------------------------------------------------------------
\* CandlestickPatterns  (candlestick.py): the pattern and trend detectors.
\* A series is a sequence of rows; iloc is positional access from 0.
\* ------------------------------------------------------------------------

\* HammerStrategy.__init__ / ShootingStarStrategy.__init__: risk_reward=1.5
RISK_REWARD == Frac(3, 2)

\* the resolution of the generators' prices
Tick == RISK_REWARD.den

Max(a, b) == IF a >= b THEN a ELSE b

iloc(series, k) == series[k + 1]

\* x * f for a ratio f
ScaleBy(x, f) == (x * f.num) \div f.den

\* is_hammer / is_shooting_star: body_ratio=0.25, wick_ratio=2.5
BODY_RATIO == Frac(1, 4)

WICK_RATIO == Frac(5, 2)

\* a variant of the range guard that lets every range through
DegenerateRange_never(total_range) == FALSE

\* total_range == 0 or total_range < 0.0001
DegenerateRange(total_range) == total_range = 0 \/ total_range * 10000 < Tick

\* a variant of the doji guard that lets every body through
DojiBody_never(body, total_range) == FALSE

\* body < total_range * 0.05
DojiBody(body, total_range) == body * 100 < total_range * 5

is_hammer(r, body_ratio, wick_ratio) ==
    LET open_price  == r.Open
        high        == r.High
        low         == r.Low
        close       == r.Close
        body        == Abs(close - open_price)
        total_range == high - low
        lower_wick  == Min(open_price, close) - low
        upper_wick  == high - Max(open_price, close)
    IN  IF DegenerateRange(total_range)
        THEN FALSE
        ELSE IF DojiBody(body, total_range)
        THEN FALSE
        ELSE LET is_small_body          == body * body_ratio.den <= body_ratio.num * total_range
                 is_long_lower_wick     == lower_wick * wick_ratio.den >= wick_ratio.num * body
                 is_small_upper_wick    == upper_wick * 10 <= body * 5
                 is_lower_wick_dominant == lower_wick * 10 >= 6 * total_range
             IN  is_small_body /\ is_long_lower_wick /\ is_small_upper_wick
                               /\ is_lower_wick_dominant

\* a variant of is_shooting_star without the doji guard
is_shooting_star_no_doji_guard(r, body_ratio, wick_ratio) ==
    LET open_price  == r.Open
        high        == r.High
        low         == r.Low
        close       == r.Close
        body        == Abs(close - open_price)
        total_range == high - low
        upper_wick  == high - Max(open_price, close)
        lower_wick  == Min(open_price, close) - low
    IN  IF DegenerateRange(total_range)
        THEN FALSE
        ELSE LET is_small_body          == body * body_ratio.den <= body_ratio.num * total_range
                 is_long_upper_wick     == upper_wick * wick_ratio.den >= wick_ratio.num * body
                 is_small_lower_wick    == lower_wick * 10 <= body * 5
                 is_upper_wick_dominant == upper_wick * 10 >= 6 * total_range
             IN  is_small_body /\ is_long_upper_wick /\ is_small_lower_wick
                               /\ is_upper_wick_dominant

is_shooting_star(r, body_ratio, wick_ratio) ==
    LET open_price  == r.Open
        high        == r.High
        low         == r.Low
        close       == r.Close
        body        == Abs(close - open_price)
        total_range == high - low
        upper_wick  == high - Max(open_price, close)
        lower_wick  == Min(open_price, close) - low
    IN  IF DegenerateRange(total_range)
        THEN FALSE
        ELSE IF DojiBody(body, total_range)
        THEN FALSE
        ELSE LET is_small_body          == body * body_ratio.den <= body_ratio.num * total_range
                 is_long_upper_wick     == upper_wick * wick_ratio.den >= wick_ratio.num * body
                 is_small_lower_wick    == lower_wick * 10 <= body * 5
                 is_upper_wick_dominant == upper_wick * 10 >= 6 * total_range
             IN  is_small_body /\ is_long_upper_wick /\ is_small_lower_wick
                               /\ is_upper_wick_dominant

\* a variant of the strict loop that lets a High equal to the previous one pass
RECURSIVE StrictDowntrendLoop_equal_ok(_, _, _, _)
StrictDowntrendLoop_equal_ok(series, index, num_candles, k) ==
    IF k > num_candles
    THEN TRUE
    ELSE LET current_idx == index - k
             prev_idx    == index - k - 1
         IN  IF prev_idx < 0
             THEN FALSE
             ELSE IF iloc(series, current_idx).High > iloc(series, prev_idx).High
             THEN FALSE
             ELSE StrictDowntrendLoop_equal_ok(series, index, num_candles, k + 1)

\* a variant of the strict loop without the `prev_idx < 0` test: iloc counts a
\* negative position from the end of the series
RECURSIVE StrictDowntrendLoop_wraps(_, _, _, _)
StrictDowntrendLoop_wraps(series, index, num_candles, k) ==
    IF k > num_candles
    THEN TRUE
    ELSE LET current_idx == index - k
             prev_idx    == index - k - 1
             prev_pos    == IF prev_idx < 0 THEN Len(series) + prev_idx ELSE prev_idx
         IN  IF iloc(series, current_idx).High >= iloc(series, prev_pos).High
             THEN FALSE
             ELSE StrictDowntrendLoop_wraps(series, index, num_candles, k + 1)

\* lines 70-84: the strict loop of detect_downtrend, from its iteration k on
RECURSIVE StrictDowntrendLoop(_, _, _, _)
StrictDowntrendLoop(series, index, num_candles, k) ==
    IF k > num_candles
    THEN TRUE
    ELSE LET current_idx == index - k
             prev_idx    == index - k - 1
         IN  IF prev_idx < 0
             THEN FALSE
             ELSE IF iloc(series, current_idx).High >= iloc(series, prev_idx).High
             THEN FALSE
             ELSE StrictDowntrendLoop(series, index, num_candles, k + 1)

\* lines 87-91: bearish_count after the iterations k..num_candles
RECURSIVE BearishCount(_, _, _, _)
BearishCount(series, index, num_candles, k) ==
    IF k > num_candles
    THEN 0
    ELSE LET idx == index - k
         IN  (IF iloc(series, idx).Close < iloc(series, idx).Open THEN 1 ELSE 0)
             + BearishCount(series, index, num_candles, k + 1)

\* a variant of the threshold: two thirds of the window
MostOf_two_thirds(count, num_candles) == count * 3 >= num_candles * 2

\* count >= num_candles * 0.7
MostOf(count, num_candles) == count * 10 >= num_candles * 7

\* a variant of detect_downtrend that ignores `strict`
detect_downtrend_relaxed_only(series, index, num_candles, strict) ==
    IF index < num_candles
    THEN FALSE
    ELSE MostOf(BearishCount(series, index, num_candles, 1), num_candles)

detect_downtrend(series, index, num_candles, strict) ==
    IF index < num_candles
    THEN FALSE
    ELSE IF strict
    THEN StrictDowntrendLoop(series, index, num_candles, 1)
    ELSE MostOf(BearishCount(series, index, num_candles, 1), num_candles)

\* a variant of the strict loop that lets a Low equal to the previous one pass
RECURSIVE StrictUptrendLoop_equal_ok(_, _, _, _)
StrictUptrendLoop_equal_ok(series, index, num_candles, k) ==
    IF k > num_candles
    THEN TRUE
    ELSE LET current_idx == index - k
             prev_idx    == index - k - 1
         IN  IF prev_idx < 0
             THEN FALSE
             ELSE IF iloc(series, current_idx).Low < iloc(series, prev_idx).Low
             THEN FALSE
             ELSE StrictUptrendLoop_equal_ok(series, index, num_candles, k + 1)

\* lines 183-197: the strict loop of detect_uptrend, from its iteration k on
RECURSIVE StrictUptrendLoop(_, _, _, _)
StrictUptrendLoop(series, index, num_candles, k) ==
    IF k > num_candles
    THEN TRUE
    ELSE LET current_idx == index - k
             prev_idx    == index - k - 1
         IN  IF prev_idx < 0
             THEN FALSE
             ELSE IF iloc(series, current_idx).Low <= iloc(series, prev_idx).Low
             THEN FALSE
             ELSE StrictUptrendLoop(series, index, num_candles, k + 1)

\* lines 200-204: bullish_count after the iterations k..num_candles
RECURSIVE BullishCount(_, _, _, _)
BullishCount(series, index, num_candles, k) ==
    IF k > num_candles
    THEN 0
    ELSE LET idx == index - k
         IN  (IF iloc(series, idx).Close > iloc(series, idx).Open THEN 1 ELSE 0)
             + BullishCount(series, index, num_candles, k + 1)

detect_uptrend(series, index, num_candles, strict) ==
    IF index < num_candles
    THEN FALSE
    ELSE IF strict
    THEN StrictUptrendLoop(series, index, num_candles, 1)
    ELSE MostOf(BullishCount(series, index, num_candles, 1), num_candles)

\* ------------------------------------------------------------------------
\* HammerStrategy and ShootingStarStrategy  (hammer_strategy.py,
\* shooting_star_strategy.py): generate_signals, one loop iteration per step.
\* The timestamp of a row is its position in the series.
\* ------------------------------------------------------------------------

HammerStrategy(downtrend_candles, risk_reward) ==
    [name              |-> "Hammer Reversal",
     downtrend_candles |-> downtrend_candles,
     risk_reward       |-> risk_reward]

ShootingStarStrategy(uptrend_candles, risk_reward) ==
    [name            |-> "Shooting Star Reversal",
     uptrend_candles |-> uptrend_candles,
     risk_reward     |-> risk_reward]

Candle(Open, High, Low, Close) ==
    [Open |-> Open * Tick, High |-> High * Tick, Low |-> Low * Tick, Close |-> Close * Tick]

\* hammer_strategy.py lines 28-34: the columns added to each row
HammerColumns(c) ==
    [Open |-> c.Open, High |-> c.High, Low |-> c.Low, Close |-> c.Close,
     signal |-> 0, entry_price |-> None, stop_loss |-> None, target |-> None,
     pattern_date |-> None, is_hammer |-> FALSE, has_downtrend |-> FALSE]

\* shooting_star_strategy.py lines 30-36: the columns added to each row
ShootingStarColumns(c) ==
    [Open |-> c.Open, High |-> c.High, Low |-> c.Low, Close |-> c.Close,
     signal |-> 0, entry_price |-> None, stop_loss |-> None, target |-> None,
     pattern_date |-> None, is_shooting_star |-> FALSE, has_uptrend |-> FALSE]

\* lines 81-85 / 83-87: the signal written on a row
WriteSignal(r, signal, entry_price, stop_loss, target, pattern_date) ==
    [r EXCEPT !.signal       = signal,
              !.entry_price  = Some(entry_price),
              !.stop_loss    = Some(stop_loss),
              !.target       = Some(target),
              !.pattern_date = Some(pattern_date)]

\* hammer_strategy.py lines 68-71 with the test of the open left out
HammerBreakout_high_only(next_candle, hammer_high) == next_candle.High > hammer_high

\* hammer_strategy.py lines 68-71
HammerBreakout(next_candle, hammer_high) ==
    LET breaks_high == next_candle.High > hammer_high
        opens_above == next_candle.Open >= hammer_high
    IN  breaks_high /\ opens_above

\* shooting_star_strategy.py lines 70-73 with the test of the open left out
ShootingStarBreakdown_low_only(next_candle, shooting_star_low) ==
    next_candle.Low < shooting_star_low

\* shooting_star_strategy.py lines 70-73
ShootingStarBreakdown(next_candle, shooting_star_low) ==
    LET breaks_low  == next_candle.Low < shooting_star_low
        opens_below == next_candle.Open <= shooting_star_low
    IN  breaks_low /\ opens_below

\* shooting_star_strategy.py line 81 with the risk added
ShortTarget_above(entry_price, risk, risk_reward) == entry_price + ScaleBy(risk, risk_reward)

\* shooting_star_strategy.py line 81
ShortTarget(entry_price, risk, risk_reward) == entry_price - ScaleBy(risk, risk_reward)

\* hammer_strategy.py line 79 with the risk-reward ratio left out
LongTarget_unscaled(entry_price, risk, risk_reward) == entry_price + risk

\* hammer_strategy.py line 79
LongTarget(entry_price, risk, risk_reward) == entry_price + ScaleBy(risk, risk_reward)

\* hammer_strategy.py lines 38-85: the loop body for index k
HammerIteration(self, series, k) ==
    LET hammer == is_hammer(iloc(series, k), BODY_RATIO, WICK_RATIO)
        df1    == [series EXCEPT ![k + 1].is_hammer = hammer]
    IN  IF ~hammer
        THEN df1
        ELSE LET strict        == detect_downtrend(df1, k, self.downtrend_candles, TRUE)
                 has_downtrend == IF ~strict
                                  THEN detect_downtrend(df1, k, self.downtrend_candles, FALSE)
                                  ELSE strict
                 df2           == [df1 EXCEPT ![k + 1].has_downtrend = has_downtrend]
             IN  IF ~has_downtrend
                 THEN df2
                 ELSE LET hammer_high == iloc(df2, k).High
                          hammer_low  == iloc(df2, k).Low
                          next_candle == iloc(df2, k + 1)
                      IN  IF HammerBreakout(next_candle, hammer_high)
                          THEN LET entry_price == next_candle.Open
                                   stop_loss   == hammer_low
                                   risk        == entry_price - stop_loss
                               IN  IF risk > 0
                                   THEN [df2 EXCEPT ![k + 2] =
                                            WriteSignal(@, 1, entry_price, stop_loss,
                                                        LongTarget(entry_price, risk,
                                                                   self.risk_reward), k)]
                                   ELSE df2
                          ELSE df2

\* shooting_star_strategy.py lines 40-87: the loop body for index k
ShootingStarIteration(self, series, k) ==
    LET star == is_shooting_star(iloc(series, k), BODY_RATIO, WICK_RATIO)
        df1  == [series EXCEPT ![k + 1].is_shooting_star = star]
    IN  IF ~star
        THEN df1
        ELSE LET strict      == detect_uptrend(df1, k, self.uptrend_candles, TRUE)
                 has_uptrend == IF ~strict
                                THEN detect_uptrend(df1, k, self.uptrend_candles, FALSE)
                                ELSE strict
                 df2         == [df1 EXCEPT ![k + 1].has_uptrend = has_uptrend]
             IN  IF ~has_uptrend
                 THEN df2
                 ELSE LET shooting_star_high == iloc(df2, k).High
                          shooting_star_low  == iloc(df2, k).Low
                          next_candle        == iloc(df2, k + 1)
                      IN  IF ShootingStarBreakdown(next_candle, shooting_star_low)
                          THEN LET entry_price == next_candle.Open
                                   stop_loss   == shooting_star_high
                                   risk        == stop_loss - entry_price
                               IN  IF risk > 0
                                   THEN [df2 EXCEPT ![k + 2] =
                                            WriteSignal(@, 0 - 1, entry_price, stop_loss,
                                                        ShortTarget(entry_price, risk,
                                                                    self.risk_reward), k)]
                                   ELSE df2
                          ELSE df2

\* the longest series and the trend windows the generators are run on
MaxLen == 4

TrendWindows == {1, 2}

\* the candles of the series: a hammer and a shooting star between 90 and
\* 100, candles that do and do not break out of that range on either side,
\* a higher bearish and a lower bullish candle, and a candle that opens
\* below the range and closes above it
Candles ==
    {Candle(98, 100, 90, 100), Candle(92, 100, 90, 90),
     Candle(101, 105, 100, 103), Candle(89, 90, 85, 87),
     Candle(99, 105, 98, 103), Candle(91, 92, 85, 87),
     Candle(108, 110, 104, 105), Candle(82, 86, 80, 85),
     Candle(89, 105, 85, 103)}

SeriesUpTo(n) == UNION {[1..len -> Candles] : len \in 0..n}

\* the backtester is not running while a generator is
IdleBacktest ==
    /\ portfolio = None
    /\ call = NoCall
    /\ opens = 0
    /\ closes = 0
    /\ calls = 0
    /\ config = Config
    /\ row = NoRow

InitScan ==
    /\ \E window \in TrendWindows, series \in SeriesUpTo(MaxLen) :
          \/ /\ strategy = HammerStrategy(window, RISK_REWARD)
             /\ df = [k \in 1..Len(series) |-> HammerColumns(series[k])]
             /\ i = window
          \/ /\ strategy = ShootingStarStrategy(window, RISK_REWARD)
             /\ df = [k \in 1..Len(series) |-> ShootingStarColumns(series[k])]
             /\ i = window
    /\ pc = "scan"
    /\ session = None
    /\ IdleBacktest

\* one iteration of `for i in range(self.downtrend_candles, len(df) - 1)`
HammerStep ==
    /\ pc = "scan"
    /\ strategy.name = "Hammer Reversal"
    /\ i < Len(df) - 1
    /\ df' = HammerIteration(strategy, df, i)
    /\ i' = i + 1
    /\ UNCHANGED <<pc, row, strategy, session>>
    /\ UNCHANGED backtestVars

\* one iteration of `for i in range(self.uptrend_candles, len(df) - 1)`
ShootingStarStep ==
    /\ pc = "scan"
    /\ strategy.name = "Shooting Star Reversal"
    /\ i < Len(df) - 1
    /\ df' = ShootingStarIteration(strategy, df, i)
    /\ i' = i + 1
    /\ UNCHANGED <<pc, row, strategy, session>>
    /\ UNCHANGED backtestVars

\* the loop is over: `return df`
ScanReturn ==
    /\ pc = "scan"
    /\ i >= Len(df) - 1
    /\ pc' = "returned"
    /\ UNCHANGED <<i, row, strategy, df, session>>
    /\ UNCHANGED backtestVars

NextScan == HammerStep \/ ShootingStarStep \/ ScanReturn

SpecScan == InitScan /\ [][NextScan]_vars

\* ------------------------------------------------------------------------
\* Claims about the reversal generators (SpecScan)
\* ------------------------------------------------------------------------

Indices(series) == 0..(Len(series) - 1)

Returned(name) == pc = "returned" /\ strategy.name = name

\* bar j of the series is the bar after a hammer that ended a downtrend
\* and broke out of it with positive risk
HammerEntryAt(series, num_candles, j) ==
    /\ num_candles <= j - 1
    /\ j - 1 <= Len(series) - 2
    /\ is_hammer(iloc(series, j - 1), BODY_RATIO, WICK_RATIO)
    /\ \/ detect_downtrend(series, j - 1, num_candles, TRUE)
       \/ detect_downtrend(series, j - 1, num_candles, FALSE)
    /\ iloc(series, j).High > iloc(series, j - 1).High
    /\ iloc(series, j).Open >= iloc(series, j - 1).High
    /\ iloc(series, j).Open - iloc(series, j - 1).Low > 0

\* C14: HammerStrategy.generate_signals marks bar j LONG exactly when
\* N <= j-1 <= len-2, bar j-1 is a hammer, detect_downtrend holds at j-1 in
\* strict or in relaxed mode, bar j has High > bar j-1's High and
\* Open >= bar j-1's High, and the risk Open[j] - Low[j-1] is positive; every
\* other bar is NONE (so a hammer whose next bar fails the breakout gives no
\* signal later) and a bar carries one signal value.
C14_HammerSignals ==
    Returned("Hammer Reversal")
    => \A j \in Indices(df) :
          /\ iloc(df, j).signal \in {0, 1}
          /\ iloc(df, j).signal = 1
                <=> HammerEntryAt(df, strategy.downtrend_candles, j)

\* the scan has returned a LONG signal, after skipping a hammer that ended
\* a downtrend but whose next bar did not break out
C14_Witness ==
    /\ Returned("Hammer Reversal")
    /\ \E j \in Indices(df) : iloc(df, j).signal = 1
    /\ \E k \in Indices(df) :
          /\ k + 1 \in Indices(df)
          /\ iloc(df, k).is_hammer
          /\ iloc(df, k).has_downtrend
          /\ iloc(df, k + 1).signal = 0

\* bar j of the series is the bar after a shooting star that ended an
\* uptrend and broke down out of it with positive risk
ShootingStarEntryAt(series, num_candles, j) ==
    /\ num_candles <= j - 1
    /\ j - 1 <= Len(series) - 2
    /\ is_shooting_star(iloc(series, j - 1), BODY_RATIO, WICK_RATIO)
    /\ \/ detect_uptrend(series, j - 1, num_candles, TRUE)
       \/ detect_uptrend(series, j - 1, num_candles, FALSE)
    /\ iloc(series, j).Low < iloc(series, j - 1).Low
    /\ iloc(series, j).Open <= iloc(series, j - 1).Low
    /\ iloc(series, j - 1).High - iloc(series, j).Open > 0

\* C15: ShootingStarStrategy.generate_signals marks bar j SHORT exactly when
\* N <= j-1 <= len-2, bar j-1 is a shooting star, detect_uptrend holds at j-1
\* in strict or in relaxed mode, bar j has Low < bar j-1's Low and
\* Open <= bar j-1's Low, and the risk High[j-1] - Open[j] is positive; every
\* other bar is NONE.
C15_ShootingStarSignals ==
    Returned("Shooting Star Reversal")
    => \A j \in Indices(df) :
          /\ iloc(df, j).signal \in {0, 0 - 1}
          /\ iloc(df, j).signal = 0 - 1
                <=> ShootingStarEntryAt(df, strategy.uptrend_candles, j)

\* the scan has returned a SHORT signal, after skipping a shooting star that
\* ended an uptrend but whose next bar did not break down
C15_Witness ==
    /\ Returned("Shooting Star Reversal")
    /\ \E j \in Indices(df) : iloc(df, j).signal = 0 - 1
    /\ \E k \in Indices(df) :
          /\ k + 1 \in Indices(df)
          /\ iloc(df, k).is_shooting_star
          /\ iloc(df, k).has_uptrend
          /\ iloc(df, k + 1).signal = 0

\* target - entry = ratio x risk
TargetAt(target, entry_price, risk, ratio) ==
    (target - entry_price) * ratio.den = risk * ratio.num

\* C16: in the series a reversal generator returns, entry_price, stop_loss
\* and target are present exactly on the bars whose signal is not NONE.  On
\* such a bar j: entry_price is bar j's Open; stop_loss is the pattern bar's
\* Low (hammer) or High (shooting star); target is entry_price + R x risk
\* (LONG) or entry_price - R x risk (SHORT); the pattern timestamp is that of
\* bar j-1; and stop_loss < entry_price < target for LONG,
\* target < entry_price < stop_loss for SHORT.
C16_SignalLevels ==
    pc \in {"scan", "returned"}
    => \A j \in Indices(df) :
          LET r == iloc(df, j)
          IN  IF r.signal = 0
              THEN /\ r.entry_price = None
                   /\ r.stop_loss = None
                   /\ r.target = None
                   /\ r.pattern_date = None
              ELSE /\ j >= 1
                   /\ r.entry_price = Some(r.Open)
                   /\ r.pattern_date = Some(j - 1)
                   /\ r.target # None
                   /\ IF r.signal = 1
                      THEN /\ strategy.name = "Hammer Reversal"
                           /\ r.stop_loss = Some(iloc(df, j - 1).Low)
                           /\ TargetAt(r.target[1], r.Open, r.Open - r.stop_loss[1],
                                       strategy.risk_reward)
                           /\ r.stop_loss[1] < r.Open
                           /\ r.Open < r.target[1]
                      ELSE /\ r.signal = 0 - 1
                           /\ strategy.name = "Shooting Star Reversal"
                           /\ r.stop_loss = Some(iloc(df, j - 1).High)
                           /\ TargetAt(r.Open, r.target[1], r.stop_loss[1] - r.Open,
                                       strategy.risk_reward)
                           /\ r.target[1] < r.Open
                           /\ r.Open < r.stop_loss[1]

\* a returned series with a SHORT signal whose target is not a whole price
C16_Witness ==
    /\ Returned("Shooting Star Reversal")
    /\ \E j \in Indices(df) :
          /\ iloc(df, j).signal = 0 - 1
          /\ iloc(df, j).target[1] % Tick # 0

\* ------------------------------------------------------------------------
\* The hammer scenario: ten bars holding six bars of strictly declining
\* highs, a hammer between 90 and 100 and a breakout bar (SpecScenario)
\* ------------------------------------------------------------------------

\* HammerStrategy.__init__: downtrend_candles=6
DOWNTREND_CANDLES == 6

\* the k-th of the declining bars: highs 130, 125, .., 105
DecliningBar(k, bearish) ==
    LET h == 135 - 5 * k
    IN  IF bearish THEN Candle(h - 1, h, h - 5, h - 4) ELSE Candle(h - 4, h, h - 5, h - 1)

DecliningRun(bearish) == [k \in 1..DOWNTREND_CANDLES |-> DecliningBar(k, bearish)]

\* low 90, high 100, body of 2 at the top, no upper wick
ScenarioHammers == {Candle(98, 100, 90, 100), Candle(100, 100, 90, 98)}

\* open 101, high 105, close 103
ScenarioBreakouts == {Candle(101, 105, 100, 103), Candle(101, 105, 101, 103)}

\* the two other bars: one above the declining bars, one below them
ScenarioFillers == {Candle(136, 140, 135, 137), Candle(101, 102, 100, 101)}

ScenarioSeries ==
    {SubSeq(fill, 1, before) \o DecliningRun(bearish) \o <<hammer, breakout>>
                             \o SubSeq(fill, before + 1, 2) :
        fill \in [1..2 -> ScenarioFillers], before \in 0..2, bearish \in BOOLEAN,
        hammer \in ScenarioHammers, breakout \in ScenarioBreakouts}

InitScenario ==
    /\ strategy = HammerStrategy(DOWNTREND_CANDLES, RISK_REWARD)
    /\ \E series \in ScenarioSeries :
          df = [k \in 1..Len(series) |-> HammerColumns(series[k])]
    /\ i = DOWNTREND_CANDLES
    /\ pc = "scan"
    /\ session = None
    /\ IdleBacktest

NextHammer == HammerStep \/ ScanReturn

SpecScenario == InitScenario /\ [][NextHammer]_vars

\* row r is the scenario's breakout bar
IsBreakoutBar(r) == r.Open = 101 * Tick /\ r.High = 105 * Tick /\ r.Close = 103 * Tick

\* row r carries LONG with entry 101, stop 90 and target 117.5
ScenarioSignal(r) ==
    /\ r.signal = 1
    /\ r.entry_price = Some(101 * Tick)
    /\ r.stop_loss = Some(90 * Tick)
    /\ r.target # None
    /\ 2 * r.target[1] = 235 * Tick

\* C17 as stated: for a 10-bar series holding 6 strictly declining-high bars
\* immediately followed by a qualifying hammer (low 90, high 100, small body
\* at the top, no upper wick) and then a breakout bar (open 101, high 105,
\* close 103), with N = 6 and R = 1.5, the returned series has LONG on the
\* breakout bar with entry 101, stop 90 and target 117.5.
C17_ScenarioSignal ==
    Returned("Hammer Reversal")
    => \A j \in Indices(df) : IsBreakoutBar(iloc(df, j)) => ScenarioSignal(iloc(df, j))

\* each of the six bars before bar h has a High strictly below the High of
\* the bar before it (so seven bars precede h), or at least five of the six
\* close below their open
TrendBefore(series, h) ==
    \/ /\ h - DOWNTREND_CANDLES - 1 >= 0
       /\ \A k \in 1..DOWNTREND_CANDLES :
             iloc(series, h - k).High < iloc(series, h - k - 1).High
    \/ Cardinality({k \in 1..DOWNTREND_CANDLES :
                       iloc(series, h - k).Close < iloc(series, h - k).Open}) >= 5

\* C17 amended: in such a series the breakout bar gets LONG with entry 101,
\* stop 90 and target 117.5 when each of the six bars has a High strictly
\* below that of the bar before it, which needs a seventh bar before the six
\* with a higher High, or when at least five of the six bars close below
\* their open; otherwise the breakout bar gets no signal.
C17_ScenarioSignalWithTrend ==
    Returned("Hammer Reversal")
    => \A j \in Indices(df) :
          IsBreakoutBar(iloc(df, j))
          => IF TrendBefore(df, j - 1)
             THEN ScenarioSignal(iloc(df, j))
             ELSE iloc(df, j).signal = 0

\* the scan has returned LONG on the breakout bar of a series whose six
\* declining bars all close above their open
C17_Witness ==
    /\ Returned("Hammer Reversal")
    /\ \E j \in Indices(df) :
          /\ IsBreakoutBar(iloc(df, j))
          /\ ScenarioSignal(iloc(df, j))
          /\ iloc(df, j - 2).Close > iloc(df, j - 2).Open

\* ------------------------------------------------------------------------
\* NYSessionStrategy  (ny_session_strategy.py): generate_signals.  The days
\* of the series are processed in order; the bars of a day are its session
\* window, drawn when the day starts, and the bars after the window, drawn
\* one per iteration of the inner loop.  Timestamps are in the reference
\* zone, as date, hour and minute.
\* ------------------------------------------------------------------------

\* NYSessionStrategy.__init__: session_start_hour=8, session_start_minute=0,
\* risk_reward=8.0
SESSION_START_HOUR == 8

SESSION_START_MINUTE == 0

SESSION_RISK_REWARD == Frac(8, 1)

NYSessionStrategy(session_start_hour, session_start_minute, risk_reward) ==
    [name                 |-> "NY Session Range Breakout",
     session_start_hour   |-> session_start_hour,
     session_start_minute |-> session_start_minute,
     risk_reward          |-> risk_reward]

Timestamp(date, hour, minute) == [date |-> date, hour |-> hour, minute |-> minute]

\* the locals of generate_signals before the first day
NoDay ==
    [date |-> None, session_start |-> None,
     four_hour_high |-> None, four_hour_low |-> None,
     in_breakout_up |-> FALSE, in_breakout_down |-> FALSE,
     breakout_high |-> None, breakout_low |-> None]

\* lines 33-39 and 81-86: a bar after the session window with its columns
SessionColumns(c, timestamp, four_hour_high, four_hour_low) ==
    [date |-> timestamp,
     Open |-> c.Open, High |-> c.High, Low |-> c.Low, Close |-> c.Close,
     signal |-> 0, entry_price |-> None, stop_loss |-> None, target |-> None,
     pattern_date |-> None,
     four_hour_high |-> Some(four_hour_high), four_hour_low |-> Some(four_hour_low)]

\* four_hour_candles['High'].max() and four_hour_candles['Low'].min()
ColumnMax(values) == CHOOSE v \in values : \A w \in values : w <= v

ColumnMin(values) == CHOOSE v \in values : \A w \in values : w >= v

\* line 104 with the High tested in place of the Close
BreaksAbove_by_high(candle, four_hour_high) == candle.High > four_hour_high

\* line 104: the candle closes above the range
BreaksAbove(candle, four_hour_high) == candle.Close > four_hour_high

\* line 110: the candle closes below the range
BreaksBelow(candle, four_hour_low) == candle.Close < four_hour_low

\* lines 123-128 with only the Close tested
BackInside_close_only(candle, four_hour_high, four_hour_low) ==
    candle.Close <= four_hour_high /\ candle.Close >= four_hour_low

\* lines 123-128 / 157-162: the entire candle is inside the range
BackInside(candle, four_hour_high, four_hour_low) ==
    /\ candle.High <= four_hour_high
    /\ candle.Low >= four_hour_low
    /\ candle.Open <= four_hour_high
    /\ candle.Open >= four_hour_low
    /\ candle.Close <= four_hour_high
    /\ candle.Close >= four_hour_low

\* line 131 with the Close as the entry price
ShortEntry_at_close(candle) == candle.Close

\* line 131
ShortEntry(candle) == candle.High

\* line 165
LongEntry(candle) == candle.Low

\* lines 104-113: a breakout starts
BreakoutCheck(s, candle) ==
    IF BreaksAbove(candle, s.four_hour_high[1]) /\ ~s.in_breakout_up /\ ~s.in_breakout_down
    THEN [s EXCEPT !.in_breakout_up = TRUE,
                   !.breakout_high  = Some(candle.High),
                   !.breakout_low   = Some(candle.Low)]
    ELSE IF BreaksBelow(candle, s.four_hour_low[1]) /\ ~s.in_breakout_down
                                                    /\ ~s.in_breakout_up
    THEN [s EXCEPT !.in_breakout_down = TRUE,
                   !.breakout_low     = Some(candle.Low),
                   !.breakout_high    = Some(candle.High)]
    ELSE s

\* a variant of the tracking that keeps the last candle's extremes
TrackExtremes_last(s, candle) ==
    [s EXCEPT !.breakout_high = Some(candle.High), !.breakout_low = Some(candle.Low)]

\* lines 117-120 / 151-154: the tracked extremes take in the candle
TrackExtremes(s, candle) ==
    [s EXCEPT !.breakout_high = IF candle.High > s.breakout_high[1]
                                THEN Some(candle.High) ELSE s.breakout_high,
              !.breakout_low  = IF candle.Low < s.breakout_low[1]
                                THEN Some(candle.Low) ELSE s.breakout_low]

\* the locals and the row after a part of the loop body
Processed(locals, r) == [locals |-> locals, row |-> r]

\* lines 116-147: the candle while in an upward breakout
UpwardBreakout(self, s, r) ==
    IF s.in_breakout_up
    THEN LET t == TrackExtremes(s, r)
         IN  IF BackInside(r, t.four_hour_high[1], t.four_hour_low[1])
             THEN LET entry_price == ShortEntry(r)
                      stop_loss   == t.breakout_high[1]
                      risk        == stop_loss - entry_price
                  IN  Processed([t EXCEPT !.in_breakout_up = FALSE,
                                          !.breakout_high  = None,
                                          !.breakout_low   = None],
                                IF risk > 0
                                THEN WriteSignal(r, 0 - 1, entry_price, stop_loss,
                                                 ShortTarget(entry_price, risk,
                                                             self.risk_reward),
                                                 t.session_start[1])
                                ELSE r)
             ELSE Processed(t, r)
    ELSE Processed(s, r)

\* lines 150-181: the candle while in a downward breakout
DownwardBreakout(self, s, r) ==
    IF s.in_breakout_down
    THEN LET t == TrackExtremes(s, r)
         IN  IF BackInside(r, t.four_hour_high[1], t.four_hour_low[1])
             THEN LET entry_price == LongEntry(r)
                      stop_loss   == t.breakout_low[1]
                      risk        == entry_price - stop_loss
                  IN  Processed([t EXCEPT !.in_breakout_down = FALSE,
                                          !.breakout_high    = None,
                                          !.breakout_low     = None],
                                IF risk > 0
                                THEN WriteSignal(r, 1, entry_price, stop_loss,
                                                 LongTarget(entry_price, risk,
                                                            self.risk_reward),
                                                 t.session_start[1])
                                ELSE r)
             ELSE Processed(t, r)
    ELSE Processed(s, r)

\* lines 96-181: the loop body for the candle of row r
SessionIteration(self, s, r) ==
    LET up == UpwardBreakout(self, BreakoutCheck(s, r), r)
    IN  DownwardBreakout(self, up.locals, up.row)

\* the days and the bars after a day's window the generator is run on
MaxDays == 2

MaxAfter == 3

\* the session windows of a day: none, or bars spanning [100, 110] or
\* [102, 108]
SessionWindows ==
    {<<>>, <<Candle(105, 110, 100, 104)>>, <<Candle(104, 108, 102, 106)>>,
     <<Candle(104, 108, 102, 106), Candle(105, 110, 100, 104)>>}

\* the bars after the window: closing above, inside and below [100, 110],
\* further out on either side, partly inside, inside [100, 110] but not
\* [102, 108], and one with its Close above its High
AfterCandles ==
    {Candle(110, 115, 108, 115), Candle(105, 108, 102, 104),
     Candle(100, 101, 95, 95), Candle(112, 120, 111, 118),
     Candle(96, 97, 90, 92), Candle(109, 112, 105, 108),
     Candle(103, 106, 101, 105), Candle(106, 107, 104, 112)}

InitSession ==
    /\ strategy = NYSessionStrategy(SESSION_START_HOUR, SESSION_START_MINUTE,
                                    SESSION_RISK_REWARD)
    /\ session = NoDay
    /\ pc = "days"
    /\ i = 0
    /\ df = <<>>
    /\ IdleBacktest

\* lines 89-92 left out: the breakout state of the day before is kept
ResetBreakout_kept(s) == s

\* lines 89-92: the breakout state before the inner loop
ResetBreakout(s) ==
    [s EXCEPT !.in_breakout_up   = FALSE,
              !.in_breakout_down = FALSE,
              !.breakout_high    = None,
              !.breakout_low     = None]

\* lines 50-92: the next day of the series, up to the inner loop; df holds
\* the day's four_hour_candles
DayStart ==
    /\ pc = "days"
    /\ LET date == IF session.date = None THEN 0 ELSE session.date[1] + 1
           session_start == Timestamp(date, strategy.session_start_hour,
                                      strategy.session_start_minute)
           s0 == [session EXCEPT !.date = Some(date),
                                 !.session_start = Some(session_start)]
       IN  /\ date < MaxDays
           /\ \E four_hour_candles \in SessionWindows, has_after \in BOOLEAN :
                 /\ df' = four_hour_candles
                 /\ IF Len(four_hour_candles) = 0
                    THEN session' = s0 /\ UNCHANGED <<pc, i>>
                    ELSE LET window == DOMAIN four_hour_candles
                             s1 == [s0 EXCEPT
                                      !.four_hour_high =
                                         Some(ColumnMax({four_hour_candles[k].High :
                                                            k \in window})),
                                      !.four_hour_low =
                                         Some(ColumnMin({four_hour_candles[k].Low :
                                                            k \in window}))]
                         IN  IF ~has_after
                             THEN session' = s1 /\ UNCHANGED <<pc, i>>
                             ELSE /\ session' = ResetBreakout(s1)
                                  /\ pc' = "candles"
                                  /\ i' = 0
    /\ UNCHANGED <<row, strategy>>
    /\ UNCHANGED backtestVars

\* one iteration of `for i in range(len(after_session))`: the i-th bar at
\* or after the session end, five minutes apart
CandleStep ==
    /\ pc = "candles"
    /\ i < MaxAfter
    /\ \E c \in AfterCandles :
          LET start == session.session_start[1]
              r   == SessionColumns(c, Timestamp(start.date, start.hour + 4,
                                                 start.minute + 5 * i),
                                    session.four_hour_high[1], session.four_hour_low[1])
              out == SessionIteration(strategy, session, r)
          IN  /\ session' = out.locals
              /\ row' = out.row
    /\ i' = i + 1
    /\ UNCHANGED <<pc, strategy, df>>
    /\ UNCHANGED backtestVars

\* the inner loop is over: after_session had i >= 1 bars
DayEnd ==
    /\ pc = "candles"
    /\ i >= 1
    /\ pc' = "days"
    /\ UNCHANGED <<i, row, strategy, df, session>>
    /\ UNCHANGED backtestVars

\* the days are over: `return df`
SessionReturn ==
    /\ pc = "days"
    /\ pc' = "returned"
    /\ UNCHANGED <<i, row, strategy, df, session>>
    /\ UNCHANGED backtestVars

NextSession == DayStart \/ CandleStep \/ DayEnd \/ SessionReturn

SpecSession == InitSession /\ [][NextSession]_vars

\* ------------------------------------------------------------------------
\* Claims about the session-breakout generator (SpecSession)
\* ------------------------------------------------------------------------

\* this step is one iteration of the inner loop, on the bar row'
CandleProcessed == pc = "candles" /\ i' = i + 1

Flat(s) == ~s.in_breakout_up /\ ~s.in_breakout_down

\* bar r lies entirely within the session range of s
FullyContained(s, r) ==
    \A price \in {r.Open, r.High, r.Low, r.Close} :
        s.four_hour_low[1] <= price /\ price <= s.four_hour_high[1]

\* C18: the breakout state leaves Flat only on a bar's Close: a bar closing
\* above the range high gives BreakoutUp, otherwise a bar closing below the
\* range low gives BreakoutDown, with the tracked high and low initialised
\* to that bar's High and Low, and any other bar leaves the state Flat.  The
\* two flags are never both set, and the tracked extremes are set exactly
\* while a breakout state is active.
C18_LeavingFlat ==
    /\ [](/\ ~(session.in_breakout_up /\ session.in_breakout_down)
          /\ session.breakout_high # None <=> ~Flat(session)
          /\ session.breakout_low # None <=> ~Flat(session))
    /\ [][(CandleProcessed /\ Flat(session))
          => LET r == row'
             IN  IF r.Close > session.four_hour_high[1]
                 THEN /\ session'.in_breakout_up
                      /\ session'.breakout_high = Some(r.High)
                      /\ session'.breakout_low = Some(r.Low)
                 ELSE IF r.Close < session.four_hour_low[1]
                 THEN /\ session'.in_breakout_down
                      /\ session'.breakout_high = Some(r.High)
                      /\ session'.breakout_low = Some(r.Low)
                 ELSE Flat(session')]_vars

\* a bar closing below the range has started a downward breakout in the
\* second day's loop
C18_Witness ==
    /\ pc = "candles"
    /\ i = 1
    /\ session.date = Some(1)
    /\ session.in_breakout_down
    /\ row.Close < session.four_hour_low[1]
    /\ session.breakout_low = Some(row.Low)

\* C19: in a breakout state every bar extends the tracked extremes, and the
\* first bar whose open, high, low and close all lie within the session
\* range brings the state back to Flat with the extremes cleared, whether
\* or not a signal is written.  That bar gets SHORT (after BreakoutUp) or
\* LONG (after BreakoutDown) exactly when risk > 0, with entry the bar's
\* High (Low), stop the tracked breakout high (low), target
\* entry - risk x R (entry + risk x R) and the session start as pattern
\* timestamp.  A bar that is not fully contained gets no signal.
C19_ReEntry ==
    [][CandleProcessed
       => LET r    == row'
              high == Max(session.breakout_high[1], r.High)
              low  == Min(session.breakout_low[1], r.Low)
          IN  /\ r.signal # 0 => FullyContained(session, r) /\ ~Flat(session)
              /\ (~Flat(session) /\ ~FullyContained(session, r))
                    => /\ session'.in_breakout_up = session.in_breakout_up
                       /\ session'.in_breakout_down = session.in_breakout_down
                       /\ session'.breakout_high = Some(high)
                       /\ session'.breakout_low = Some(low)
              /\ (~Flat(session) /\ FullyContained(session, r))
                    => /\ Flat(session')
                       /\ session'.breakout_high = None
                       /\ session'.breakout_low = None
                       /\ IF session.in_breakout_up
                          THEN IF high - r.High > 0
                               THEN /\ r.signal = 0 - 1
                                    /\ r.entry_price = Some(r.High)
                                    /\ r.stop_loss = Some(high)
                                    /\ r.target # None
                                    /\ TargetAt(r.High, r.target[1], high - r.High,
                                                strategy.risk_reward)
                                    /\ r.pattern_date = session.session_start
                               ELSE r.signal = 0
                          ELSE IF r.Low - low > 0
                               THEN /\ r.signal = 1
                                    /\ r.entry_price = Some(r.Low)
                                    /\ r.stop_loss = Some(low)
                                    /\ r.target # None
                                    /\ TargetAt(r.target[1], r.Low, r.Low - low,
                                                strategy.risk_reward)
                                    /\ r.pattern_date = session.session_start
                               ELSE r.signal = 0]_vars

\* the third bar after the window came back inside after a downward
\* breakout whose tracked low the second bar had extended, and got LONG
C19_Witness ==
    /\ pc = "candles"
    /\ i = 3
    /\ Flat(session)
    /\ session.breakout_low = None
    /\ row.signal = 1
    /\ row.stop_loss = Some(90 * Tick)

\* C20: with session range [100, 110] and R = 8, a bar after the window
\* that closes at 115 with High 115 and starts the breakout gets no signal,
\* and when the next bar lies fully inside the range with High 108 that bar
\* gets SHORT with entry 108, stop 115 and target 52.
C20_SessionScenario ==
    [][(/\ CandleProcessed
        /\ strategy.risk_reward = Frac(8, 1)
        /\ session.four_hour_high = Some(110 * Tick)
        /\ session.four_hour_low = Some(100 * Tick))
       => /\ (Flat(session) /\ row'.Close = 115 * Tick /\ row'.High = 115 * Tick)
                => /\ row'.signal = 0
                   /\ session'.in_breakout_up
                   /\ session'.breakout_high = Some(115 * Tick)
          /\ (/\ i >= 1
              /\ row.Close = 115 * Tick /\ row.High = 115 * Tick
              /\ session.in_breakout_up
              /\ session.breakout_high = Some(115 * Tick)
              /\ FullyContained(session, row') /\ row'.High = 108 * Tick)
                => /\ row'.signal = 0 - 1
                   /\ row'.entry_price = Some(108 * Tick)
                   /\ row'.stop_loss = Some(115 * Tick)
                   /\ row'.target = Some(52 * Tick)]_vars

\* the second bar after the window of [100, 110] has got SHORT with entry
\* 108, stop 115 and target 52
C20_Witness ==
    /\ pc = "candles"
    /\ i = 2
    /\ session.four_hour_high = Some(110 * Tick)
    /\ session.four_hour_low = Some(100 * Tick)
    /\ row.signal = 0 - 1
    /\ row.entry_price = Some(108 * Tick)
    /\ row.stop_loss = Some(115 * Tick)
    /\ row.target = Some(52 * Tick)

\* minutes since midnight of a timestamp
MinuteOfDay(t) == t.hour * 60 + t.minute

\* this step starts the next day
DayStarted == pc = "days" /\ session'.date # session.date

\* C21: each day is processed independently.  The inner loop of every day
\* starts in Flat with the tracked extremes cleared, whatever state the day
\* before ended in, so a breakout pending at a day's last bar causes no
\* signal on a later day.  A signal is only written by the inner loop, on a
\* bar of the current day at or after the session end (session start + 4h),
\* with that day's session start as pattern timestamp and with the range of
\* that day's session window; a day without bars in the window gets no
\* signal: its inner loop is not entered.
C21_DaysIndependent ==
    /\ []((pc = "candles" /\ i = 0)
            => /\ Flat(session)
               /\ session.breakout_high = None
               /\ session.breakout_low = None)
    /\ [][row' # row => CandleProcessed]_vars
    /\ [][(CandleProcessed /\ row'.signal # 0)
          => LET start == Timestamp(session.date[1], strategy.session_start_hour,
                                    strategy.session_start_minute)
             IN  /\ row'.date.date = session.date[1]
                 /\ MinuteOfDay(row'.date) >= MinuteOfDay(start) + 4 * 60
                 /\ row'.pattern_date = Some(start)
                 /\ df # <<>>
                 /\ \A k \in DOMAIN df : /\ df[k].High <= session.four_hour_high[1]
                                         /\ df[k].Low >= session.four_hour_low[1]
                 /\ \E k \in DOMAIN df : df[k].High = session.four_hour_high[1]
                 /\ \E k \in DOMAIN df : df[k].Low = session.four_hour_low[1]]_vars
    /\ [][(DayStarted /\ df' = <<>>) => (pc' = "days" /\ row' = row)]_vars

\* the second day's inner loop starts in Flat although the last bar of the
\* first day closed above that day's range, leaving a breakout pending
C21_Witness ==
    /\ pc = "candles"
    /\ i = 0
    /\ session.date = Some(1)
    /\ Flat(session)
    /\ row # NoRow
    /\ row.date.date = 0
    /\ row.Close > row.four_hour_high[1]

\* ---------------------------------------------------------------------------
\* The candlestick detectors as pure functions of one bar
\* (CandlestickPatterns.is_hammer, CandlestickPatterns.is_shooting_star)
\* ---------------------------------------------------------------------------

\* the bound of the dense part of the price grid
MaxPrice == 6

\* the prices a bar is drawn from: a dense grid, and three far prices that give
\* ranges of 20, 21 and 40 around a body of 1
BarPrices == (0..MaxPrice) \cup {20, 21, 40}

\* the (body_ratio, wick_ratio) arguments: the defaults and two other pairs
RatioPairs == {<<BODY_RATIO, WICK_RATIO>>, <<Frac(1, 2), Frac(2, 1)>>, <<Frac(1, 10), Frac(5, 1)>>}

\* any four prices make a bar: High is not required to be the largest of them
InitPatterns ==
    /\ \E Open \in BarPrices, High \in BarPrices, Low \in BarPrices, Close \in BarPrices :
          row = Candle(Open, High, Low, Close)
    /\ portfolio = None
    /\ call = NoCall
    /\ opens = 0
    /\ closes = 0
    /\ calls = 0
    /\ config = Config
    /\ pc = "patterns"
    /\ i = 0
    /\ strategy = None
    /\ df = <<>>
    /\ session = None

\* is_hammer(row, body_ratio, wick_ratio) and is_shooting_star(row, body_ratio,
\* wick_ratio) on the same bar
CallPatterns ==
    /\ calls = 0
    /\ pc = "patterns"
    /\ \E ratios \in RatioPairs :
          call' = [op |-> "patterns",
                   args |-> [row |-> row, body_ratio |-> ratios[1], wick_ratio |-> ratios[2]],
                   ret |-> [is_hammer |-> is_hammer(row, ratios[1], ratios[2]),
                            is_shooting_star |-> is_shooting_star(row, ratios[1], ratios[2])],
                   raised |-> FALSE]
    /\ calls' = calls + 1
    /\ UNCHANGED <<portfolio, opens, closes, pc, i, row, config>>
    /\ UNCHANGED generatorVars

NextPatterns == CallPatterns

SpecPatterns == InitPatterns /\ [][NextPatterns]_vars

\* the detectors have been called with their default ratios
DefaultRatios ==
    /\ call.op = "patterns"
    /\ call.args.body_ratio = BODY_RATIO
    /\ call.args.wick_ratio = WICK_RATIO

\* C22: with the default ratios, is_hammer and is_shooting_star are never both
\* true for the same bar, whatever its open, high, low and close are.
C22_HammerExcludesShootingStar ==
    DefaultRatios => ~(call.ret.is_hammer /\ call.ret.is_shooting_star)

\* a hammer that is not a shooting star, and the detectors have said so
C22_Witness ==
    /\ DefaultRatios
    /\ call.ret.is_hammer
    /\ ~call.ret.is_shooting_star
    /\ call.args.row = Candle(5, 6, 0, 6)

\* C23: is_hammer returns false when range = high - low is 0 or below 1e-4, and
\* when body < 0.05 x range; otherwise it returns true iff body/range <=
\* bodyRatio, lowerWick >= wickRatio x body, upperWick <= 0.5 x body and
\* lowerWick/range >= 0.6.  It does not raise on a zero-range bar.
C23_HammerConditions ==
    call.op = "patterns" =>
        LET r          == call.args.row
            bodyRatio  == call.args.body_ratio
            wickRatio  == call.args.wick_ratio
            range      == r.High - r.Low
            body       == Abs(r.Close - r.Open)
            lowerWick  == Min(r.Open, r.Close) - r.Low
            upperWick  == r.High - Max(r.Open, r.Close)
        IN  /\ ~call.raised
            /\ (range = 0 \/ range * 10000 < Tick) => ~call.ret.is_hammer
            /\ body * 100 < 5 * range => ~call.ret.is_hammer
            /\ (range > 0 /\ range * 10000 >= Tick /\ body * 100 >= 5 * range) =>
                  (call.ret.is_hammer <=>
                      /\ body * bodyRatio.den <= bodyRatio.num * range
                      /\ lowerWick * wickRatio.den >= wickRatio.num * body
                      /\ upperWick * 2 <= body
                      /\ lowerWick * 5 >= 3 * range)

\* the four conditions hold of the bar, and only its body, under 5% of its
\* range, makes is_hammer false
C23_Witness ==
    /\ DefaultRatios
    /\ call.args.row = Candle(20, 21, 0, 21)
    /\ ~call.ret.is_hammer

\* ---------------------------------------------------------------------------
\* The trend detectors as pure functions of a series, an index and a window
\* (CandlestickPatterns.detect_downtrend, CandlestickPatterns.detect_uptrend)
\* ---------------------------------------------------------------------------

\* the longest of the short series
MaxTrendLen == 3

\* bars of three colours (bearish, bullish, close = open) on several levels;
\* the third has the High of the second, the sixth the Low of the fifth
TrendCandles ==
    {Candle(108, 110, 104, 105), Candle(101, 105, 100, 103), Candle(103, 105, 101, 103),
     Candle(89, 90, 85, 87), Candle(82, 86, 80, 85), Candle(88, 95, 80, 88)}

ShortSeries == UNION {[1..n -> TrendCandles] : n \in 0..MaxTrendLen}

Colours == {"bearish", "bullish", "doji"}

\* a bar four prices tall under `high`, its body of the given colour
ColouredBar(high, colour) ==
    CASE colour = "bearish" -> Candle(high - 1, high, high - 4, high - 3)
      [] colour = "bullish" -> Candle(high - 3, high, high - 4, high - 1)
      [] colour = "doji"    -> Candle(high - 2, high, high - 4, high - 2)

\* DOWNTREND_CANDLES + 1 bars, each five prices below (direction = -1) or above
\* (direction = 1) the bar before it, except the bar at position `flat`
\* (0-based; 0 for none), which is level with the bar before it
Staircase(direction, colours, flat) ==
    [p \in 1..(DOWNTREND_CANDLES + 1) |->
        LET steps == IF flat >= 1 /\ p - 1 >= flat THEN p - 2 ELSE p - 1
        IN  ColouredBar(100 + direction * 5 * steps, colours[p])]

LongSeries ==
    {Staircase(direction, colours, flat) :
        direction \in {-1, 1},
        colours \in [1..(DOWNTREND_CANDLES + 1) -> Colours],
        flat \in {0, 3, DOWNTREND_CANDLES}}

InitTrend ==
    /\ \/ \E series \in ShortSeries, num_candles \in TrendWindows :
             /\ df = series
             /\ \E index \in 0..Len(series) : i = index
             /\ strategy = [num_candles |-> num_candles]
       \/ \E series \in LongSeries :
             /\ df = series
             /\ \E index \in DOWNTREND_CANDLES..Len(series) : i = index
             /\ strategy = [num_candles |-> DOWNTREND_CANDLES]
    /\ portfolio = None
    /\ call = NoCall
    /\ opens = 0
    /\ closes = 0
    /\ calls = 0
    /\ config = Config
    /\ pc = "trend"
    /\ row = NoRow
    /\ session = None

\* detect_downtrend(df, index, num_candles, strict) and detect_uptrend(df, index,
\* num_candles, strict), each in strict and in relaxed mode
CallTrend ==
    /\ calls = 0
    /\ pc = "trend"
    /\ LET index       == i
           num_candles == strategy.num_candles
       IN  call' = [op |-> "trend",
                    args |-> [index |-> index, num_candles |-> num_candles],
                    ret |-> [down_strict  |-> detect_downtrend(df, index, num_candles, TRUE),
                             down_relaxed |-> detect_downtrend(df, index, num_candles, FALSE),
                             up_strict    |-> detect_uptrend(df, index, num_candles, TRUE),
                             up_relaxed   |-> detect_uptrend(df, index, num_candles, FALSE)],
                    raised |-> FALSE]
    /\ calls' = calls + 1
    /\ UNCHANGED <<portfolio, opens, closes, pc, i, row, config>>
    /\ UNCHANGED generatorVars

NextTrend == CallTrend

SpecTrend == InitTrend /\ [][NextTrend]_vars

\* the bar at index - k of the series of the call (k = 1 is the bar before index)
Back(k) == iloc(df, call.args.index - k)

\* the bar at index - k exists and has a predecessor
HasPredecessor(k) == call.args.index - k - 1 >= 0

\* C24: detect_downtrend in strict mode with window N is true iff for every k
\* in 1..N the bar at index-k has a predecessor and a High strictly below its
\* predecessor's; it is false if index < N.
C24_StrictDowntrend ==
    call.op = "trend" =>
        /\ call.ret.down_strict <=>
              \A k \in 1..call.args.num_candles :
                  HasPredecessor(k) /\ Back(k).High < Back(k + 1).High
        /\ call.args.index < call.args.num_candles => ~call.ret.down_strict

\* six declining highs before the index, and strict mode says so
C24_Witness ==
    /\ call.op = "trend"
    /\ call.args.num_candles = DOWNTREND_CANDLES
    /\ call.args.index = DOWNTREND_CANDLES + 1
    /\ call.ret.down_strict

\* C25 as stated: detect_uptrend in strict mode is true only if for every k in
\* 1..N the low of bar index-k is strictly less than the low of bar index-k-1.
C25_UptrendLowsFalling ==
    (call.op = "trend" /\ call.ret.up_strict) =>
        \A k \in 1..call.args.num_candles :
            HasPredecessor(k) /\ Back(k).Low < Back(k + 1).Low

\* C25 amended: detect_uptrend in strict mode is true only if for every k in
\* 1..N the low of bar index-k is strictly greater than the low of bar
\* index-k-1.
C25_UptrendLowsRising ==
    (call.op = "trend" /\ call.ret.up_strict) =>
        \A k \in 1..call.args.num_candles :
            HasPredecessor(k) /\ Back(k).Low > Back(k + 1).Low

\* six rising lows before the index, and strict mode says so
C25_Witness ==
    /\ call.op = "trend"
    /\ call.args.num_candles = DOWNTREND_CANDLES
    /\ call.args.index = DOWNTREND_CANDLES + 1
    /\ call.ret.up_strict

\* the bars among the N before the index with close < open, with close > open
BearishBars == {k \in 1..call.args.num_candles : Back(k).Close < Back(k).Open}

BullishBars == {k \in 1..call.args.num_candles : Back(k).Close > Back(k).Open}

\* C26: in relaxed mode with index >= N, detect_downtrend (detect_uptrend) is
\* true iff the number of the N bars before index with close < open (close >
\* open) is at least 0.7 x N; with N = 6 that is at least 5 of the 6; a bar
\* with close = open counts for neither.
C26_RelaxedTrend ==
    (call.op = "trend" /\ call.args.index >= call.args.num_candles) =>
        LET N == call.args.num_candles
        IN  /\ call.ret.down_relaxed <=> 10 * Cardinality(BearishBars) >= 7 * N
            /\ call.ret.up_relaxed <=> 10 * Cardinality(BullishBars) >= 7 * N
            /\ N = 6 => /\ call.ret.down_relaxed <=> Cardinality(BearishBars) >= 5
                        /\ call.ret.up_relaxed <=> Cardinality(BullishBars) >= 5

\* five bearish bars and one with close = open: relaxed downtrend, by the five
C26_Witness ==
    /\ call.op = "trend"
    /\ call.args.num_candles = 6
    /\ call.args.index = 6
    /\ Cardinality(BearishBars) = 5
    /\ Cardinality(BullishBars) = 0
    /\ call.ret.down_relaxed
    /\ ~call.ret.up_relaxed

\* seven bars with declining highs of which three are bearish
StrictOnly == Staircase(-1, <<"bullish", "bearish", "bullish", "bearish", "bullish", "bearish", "bullish">>, 0)

\* seven bearish bars, the fourth level with the third
RelaxedOnly == Staircase(-1, [p \in 1..(DOWNTREND_CANDLES + 1) |-> "bearish"], 3)

\* C27: over 6-bar windows, strict and relaxed downtrend detection are
\* independent: on one series the strict result is true and the relaxed one
\* false, on another the relaxed result is true and the strict one false.
C27_StrictRelaxedIndependent ==
    /\ detect_downtrend(StrictOnly, 7, 6, TRUE) /\ ~detect_downtrend(StrictOnly, 7, 6, FALSE)
    /\ detect_downtrend(RelaxedOnly, 7, 6, FALSE) /\ ~detect_downtrend(RelaxedOnly, 7, 6, TRUE)
    /\ (call.op = "trend" /\ call.args.num_candles = 6 /\ call.args.index = 7) =>
          /\ df = StrictOnly => (call.ret.down_strict /\ ~call.ret.down_relaxed)
          /\ df = RelaxedOnly => (call.ret.down_relaxed /\ ~call.ret.down_strict)

\* the second series has been examined
C27_Witness ==
    /\ call.op = "trend"
    /\ call.args.num_candles = 6
    /\ call.args.index = 7
    /\ df = RelaxedOnly
    /\ call.ret.down_relaxed
    /\ ~call.ret.down_strict

\* the first series has been examined
C27_StrictCase ==
    /\ call.op = "trend"
    /\ call.args.num_candles = 6
    /\ call.args.index = 7
    /\ df = StrictOnly
    /\ call.ret.down_strict
    /\ ~call.ret.down_relaxed

\* ---------------------------------------------------------------------------
\* _compile_results as a function of the portfolio a run leaves behind: its
\* closed trades, its cash and its equity curve, in dollars
\* ---------------------------------------------------------------------------

\* the most trades, and the most rows of the equity curve
MaxTrades == 4

MaxCurve == 4

ScenarioCapital == 100000

Pnls == {0 - 200, 0 - 100, 0, 300, 500}

Equities == {90000, 100000, 110000, 120000}

\* a closed trade of one share with the given pnl
ClosedTrade(pnl) ==
    PositionClose(Position(0, 1000, 1, 900, 2000, "STOCK", "LONG"), 1, 1000 + pnl, "Target")

\* the rows update_equity appends for a flat portfolio whose cash is `equities`
CurveOf(equities) ==
    [k \in 1..Len(equities) |-> [date |-> k, equity |-> equities[k], cash |-> equities[k]]]

\* the cash after each of the trades
RECURSIVE CashAfter(_, _)
CashAfter(pnls, k) == IF k = 0 THEN ScenarioCapital ELSE CashAfter(pnls, k - 1) + pnls[k]

\* either any trades, with the equity curve they leave, or any equity curve,
\* with one trade that accounts for its last row
InitResults ==
    /\ \/ \E pnls \in UNION {[1..n -> Pnls] : n \in 0..MaxTrades} :
             portfolio = [Portfolio(ScenarioCapital, 1, 1) EXCEPT
                             !.cash = CashAfter(pnls, Len(pnls)),
                             !.positions = [k \in 1..Len(pnls) |-> ClosedTrade(pnls[k])],
                             !.equity_curve = CurveOf([k \in 1..Len(pnls) |-> CashAfter(pnls, k)])]
       \/ \E equities \in UNION {[1..n -> Equities] : n \in 1..MaxCurve} :
             portfolio = [Portfolio(ScenarioCapital, 1, 1) EXCEPT
                             !.cash = equities[Len(equities)],
                             !.positions = <<ClosedTrade(equities[Len(equities)] - ScenarioCapital)>>,
                             !.equity_curve = CurveOf(equities)]
    /\ call = NoCall
    /\ opens = 0
    /\ closes = 0
    /\ calls = 0
    /\ config = Config
    /\ pc = "results"
    /\ i = 0
    /\ row = NoRow
    /\ strategy = None
    /\ df = <<>>
    /\ session = None

\* self.results = self._compile_results(df_signals, symbol)
CallCompileResults ==
    /\ calls = 0
    /\ pc = "results"
    /\ call' = [op |-> "_compile_results", args |-> <<>>, ret |-> compile_results(portfolio),
                raised |-> FALSE]
    /\ calls' = calls + 1
    /\ UNCHANGED <<portfolio, opens, closes, pc, i, row, config>>
    /\ UNCHANGED generatorVars

NextResults == CallCompileResults

SpecResults == InitResults /\ [][NextResults]_vars

\* the results have been compiled from at least one trade
Compiled == call.op = "_compile_results" /\ portfolio.positions # <<>>

\* the equity of row k of the curve
Equity(k) == portfolio.equity_curve[k].equity

\* the largest equity among the rows 1..k
RunningMax(k) == CHOOSE e \in {Equity(j) : j \in 1..k} : \A j \in 1..k : Equity(j) <= e

\* 100 x (equity - running maximum) / running maximum at row k is at least the
\* fraction f
AtLeast(k, f) == (Equity(k) - RunningMax(k)) * 100 * f.den >= f.num * RunningMax(k)

\* C28: max_drawdown is the minimum over the equity curve of (equity - running
\* maximum so far) / running maximum x 100; for the curve [100k, 120k, 90k,
\* 110k] it is -25; it is never positive.
C28_MaxDrawdown ==
    call.op = "_compile_results" =>
        LET max_drawdown == call.ret.max_drawdown
            rows         == DOMAIN portfolio.equity_curve
        IN  /\ max_drawdown.den > 0
            /\ max_drawdown.num <= 0
            /\ Compiled =>
                  /\ \A k \in rows : AtLeast(k, max_drawdown)
                  /\ \E k \in rows :
                        max_drawdown = Ratio((Equity(k) - RunningMax(k)) * 100, RunningMax(k))
            /\ (Compiled /\ portfolio.equity_curve = CurveOf(<<100000, 120000, 90000, 110000>>))
                  => max_drawdown = Frac(0 - 25, 1)

\* the results of the curve [100k, 120k, 90k, 110k]
C28_Witness ==
    /\ Compiled
    /\ portfolio.equity_curve = CurveOf(<<100000, 120000, 90000, 110000>>)
    /\ call.ret.max_drawdown = Frac(0 - 25, 1)

\* the pnls of the closed trades, in order
PnlsOfTrades == [k \in DOMAIN portfolio.positions |-> portfolio.positions[k].pnl]

\* the positions of the trades with a pnl above zero, below zero
WinnerSet == {k \in DOMAIN PnlsOfTrades : PnlsOfTrades[k] > 0}

LoserSet == {k \in DOMAIN PnlsOfTrades : PnlsOfTrades[k] < 0}

\* the sum of pnl over a set of trades
RECURSIVE SumOver(_)
SumOver(set) ==
    IF set = {}
    THEN 0
    ELSE LET k == CHOOSE x \in set : TRUE
         IN  PnlsOfTrades[k] + SumOver(set \ {k})

\* the fraction f is the mean pnl of the set of trades, or 0 for the empty set
IsMeanOf(f, set) ==
    /\ f.den > 0
    /\ IF set = {} THEN f.num = 0 ELSE f.num * Cardinality(set) = SumOver(set) * f.den

\* C29: winners are the trades with pnl > 0 and losers those with pnl < 0, so
\* winning + losing <= total; avg_win and avg_loss are the means over winners
\* and losers (0 when there are none); profit_factor = |avg_win / avg_loss|, or
\* 0 when there is no losing trade; for the pnls [+500, -200, +300, -100]
\* avg_win = 400, avg_loss = -150 and profit_factor = 400/150.
C29_WinnersAndLosers ==
    Compiled =>
        LET r == call.ret
        IN  /\ r.total_trades = Len(portfolio.positions)
            /\ r.winning_trades = Cardinality(WinnerSet)
            /\ r.losing_trades = Cardinality(LoserSet)
            /\ r.winning_trades + r.losing_trades <= r.total_trades
            /\ IsMeanOf(r.avg_win, WinnerSet)
            /\ IsMeanOf(r.avg_loss, LoserSet)
            /\ r.profit_factor.den > 0
            /\ IF LoserSet = {}
               THEN r.profit_factor.num = 0
               ELSE r.profit_factor.num * r.avg_win.den * Abs(r.avg_loss.num)
                       = r.profit_factor.den * Abs(r.avg_win.num) * r.avg_loss.den
            /\ PnlsOfTrades = <<500, 0 - 200, 300, 0 - 100>> =>
                  /\ r.avg_win = Frac(400, 1)
                  /\ r.avg_loss = Frac(0 - 150, 1)
                  /\ r.profit_factor = Ratio(400, 150)

\* the results of the pnls [+500, -200, +300, -100]
C29_Witness ==
    /\ Compiled
    /\ PnlsOfTrades = <<500, 0 - 200, 300, 0 - 100>>
    /\ call.ret.profit_factor = Frac(8, 3)

C30_BarsWithoutTrade ==
    /\ pc = "done"
    /\ i > 0
    /\ row.signal # 0
    /\ portfolio.positions = <<>>
    /\ call.ret.total_trades = 0

\* ---------------------------------------------------------------------------
\* BacktestEngine.__init__ and the Portfolio that run() creates from it.
\* Rates are in units of 1/ConfigRateDen here, so that Config's defaults are
\* whole numbers.
\* ---------------------------------------------------------------------------

ConfigRateDen == 10000

\* Config.INITIAL_CAPITAL = 500000, Config.COMMISSION = 0.0003,
\* Config.SLIPPAGE = 0.0001
INITIAL_CAPITAL == 500000

COMMISSION == 3

SLIPPAGE == 1

\* a variant of `or` that falls back only when no value is passed
Or_if_none(value, default) == IF value # None THEN value[1] ELSE default

\* `value or default`: None and 0 are both false
Or(value, default) == IF Truthy(value) THEN value[1] ELSE default

\* BacktestEngine.__init__(strategy, initial_capital, commission, slippage)
BacktestEngine(initial_capital, commission, slippage) ==
    [initial_capital |-> Or(initial_capital, INITIAL_CAPITAL),
     commission      |-> Or(commission, COMMISSION),
     slippage        |-> Or(slippage, SLIPPAGE),
     portfolio       |-> None,
     results         |-> None]

\* the values a constructor argument takes: absent, zero, the default, others
CapitalArgs == {None, Some(0), Some(100000), Some(INITIAL_CAPITAL), Some(1000000)}

RateArgs == {None, Some(0), Some(1), Some(3), Some(10)}

InitEngine ==
    /\ portfolio = None
    /\ call = NoCall
    /\ opens = 0
    /\ closes = 0
    /\ calls = 0
    /\ config = Config
    /\ pc = "new"
    /\ i = 0
    /\ row = NoRow
    /\ strategy = None
    /\ df = <<>>
    /\ session = None

\* engine = BacktestEngine(strategy, initial_capital, commission, slippage);
\* `call` keeps the arguments and the engine constructed
Construct ==
    /\ pc = "new"
    /\ \E initial_capital \in CapitalArgs, commission \in RateArgs, slippage \in RateArgs :
          call' = [op |-> "BacktestEngine",
                   args |-> [initial_capital |-> initial_capital, commission |-> commission,
                             slippage |-> slippage],
                   ret |-> BacktestEngine(initial_capital, commission, slippage),
                   raised |-> FALSE]
    /\ pc' = "constructed"
    /\ UNCHANGED <<portfolio, opens, closes, calls, i, row, config>>
    /\ UNCHANGED generatorVars

\* engine.run(df): lines 33-38, the Portfolio of the run
CreatePortfolio ==
    /\ pc = "constructed"
    /\ LET self == call.ret
       IN  portfolio' = Portfolio(self.initial_capital, self.commission, self.slippage)
    /\ pc' = "run"
    /\ UNCHANGED <<call, opens, closes, calls, i, row, config>>
    /\ UNCHANGED generatorVars

NextEngine == Construct \/ CreatePortfolio

SpecEngine == InitEngine /\ [][NextEngine]_vars

\* the Portfolio of the run has the passed value, or the default when none is
\* passed
Overridden(passed, used, default) ==
    IF passed = None THEN used = default ELSE used = passed[1]

\* C31: the Portfolio created by run() uses exactly the value passed to the
\* constructor for initial_capital, commission and slippage, for every passed
\* value including a commission or slippage of 0, and the default only when
\* no value is passed.
C31_Overridable ==
    pc = "run" =>
        /\ Overridden(call.args.initial_capital, portfolio.initial_capital, INITIAL_CAPITAL)
        /\ Overridden(call.args.commission, portfolio.commission, COMMISSION)
        /\ Overridden(call.args.slippage, portfolio.slippage, SLIPPAGE)

\* what does hold: every passed value other than 0 is used, and the default
\* stands in for 0 as it does for no value
C31_NonZeroOverridable ==
    pc = "run" =>
        /\ Overridden(IF call.args.initial_capital = Some(0) THEN None
                      ELSE call.args.initial_capital,
                      portfolio.initial_capital, INITIAL_CAPITAL)
        /\ Overridden(IF call.args.commission = Some(0) THEN None ELSE call.args.commission,
                      portfolio.commission, COMMISSION)
        /\ Overridden(IF call.args.slippage = Some(0) THEN None ELSE call.args.slippage,
                      portfolio.slippage, SLIPPAGE)

\* a run constructed with commission 0 whose Portfolio charges the default
C31_ZeroCommissionIgnored ==
    /\ pc = "run"
    /\ call.args.commission = Some(0)
    /\ portfolio.commission = COMMISSION

\* ---------------------------------------------------------------------------
\* Two runs started from the GUI in one process.  Each executes
\* `Config.MAX_POSITION_SIZE = position_size` and then the bar loop; the class
\* attribute is the only state they share, so the second run is modelled by
\* its assignment alone.
\* ---------------------------------------------------------------------------

\* the fractions of the slider: its lowest value, its default and its highest
RunSizes == {Frac(1, 100), Frac(1, 10), Frac(1, 1)}

InitRuns ==
    /\ portfolio = None
    /\ call = NoCall
    /\ opens = 0
    /\ closes = 0
    /\ calls = 0
    /\ config = Config
    /\ pc = "configure"
    /\ i = 0
    /\ row = NoRow
    /\ strategy = None
    /\ df = <<>>
    /\ session = None

\* app.py lines 391-393 and engine.py lines 33-38 of this run, up to its bar
\* loop; `call` keeps the fraction the run was started with
Configure ==
    /\ pc = "configure"
    /\ \E position_size \in RunSizes :
          /\ config' = [config EXCEPT !.MAX_POSITION_SIZE = position_size]
          /\ call' = [op |-> "run", args |-> [position_size |-> position_size],
                      ret |-> FALSE, raised |-> FALSE]
    /\ portfolio' = Portfolio(1000 * Unit, 1, 1)
    /\ pc' = "loop"
    /\ UNCHANGED <<opens, closes, calls, i, row>>
    /\ UNCHANGED generatorVars

\* app.py line 391 of the other run, while this run's bar loop is in progress
OtherConfigure ==
    /\ pc = "loop"
    /\ \E position_size \in RunSizes :
          /\ position_size # config.MAX_POSITION_SIZE
          /\ config' = [config EXCEPT !.MAX_POSITION_SIZE = position_size]
    /\ UNCHANGED <<portfolio, call, opens, closes, calls, pc, i, row>>
    /\ UNCHANGED generatorVars

NextRuns == Configure \/ OtherConfigure \/ BarStep \/ EndOfData

SpecRuns == InitRuns /\ [][NextRuns]_vars

\* this step of the bar loop has opened a position
Opened ==
    /\ pc = "loop"
    /\ i' = i + 1
    /\ portfolio'.current_position # None
    /\ portfolio'.current_position[1].entry_date = i

\* the position open_position makes on row r with the fraction position_size
SizedWith(self, r, position_size) ==
    open_position(ExitCheck(self, r, r.date), r.date, r.entry_price[1], r.stop_loss[1],
                  r.target[1], "STOCK", position_size,
                  IF r.signal = 1 THEN "LONG" ELSE "SHORT").self.current_position

\* C32: when two runs with different max-position-risk fractions are
\* interleaved, every position of a run is sized with the run's own fraction.
C32_RunsIsolated ==
    [][Opened =>
          portfolio'.current_position[1].quantity
              = SizedWith(portfolio, row', call.args.position_size)[1].quantity]_vars

\* a position has been opened while the class attribute held the other run's
\* fraction
C32_SizedByOtherRun ==
    /\ pc = "loop"
    /\ call.op = "run"
    /\ portfolio.current_position # None
    /\ call.args.position_size = Frac(1, 100)
    /\ portfolio.current_position[1].quantity = 97

\* the bar r reflected vertically about c/2: prices p become c - p, and the
\* high and the low change places
Reflected(r, c) == [Open |-> c - r.Open, High |-> c - r.Low, Low |-> c - r.High,
                    Close |-> c - r.Close]

\* the constants the bar is reflected with
Mirrors == {0, 7 * Tick, 40 * Tick}

\* C33: is_shooting_star is the mirror image of is_hammer: for every bar,
\* is_shooting_star(bar) equals is_hammer of the bar with open, high, low,
\* close replaced by c-open, c-low, c-high, c-close, for a constant c; the
\* degenerate and doji guards are the same.
C33_MirrorImage ==
    call.op = "patterns" =>
        \A c \in Mirrors :
            /\ call.ret.is_shooting_star
                  = is_hammer(Reflected(call.args.row, c), call.args.body_ratio,
                              call.args.wick_ratio)
            /\ call.ret.is_hammer
                  = is_shooting_star(Reflected(call.args.row, c), call.args.body_ratio,
                                     call.args.wick_ratio)

\* a shooting star whose reflection is a hammer
C33_Witness ==
    /\ DefaultRatios
    /\ call.args.row = Candle(0, 6, 0, 1)
    /\ call.ret.is_shooting_star
    /\ is_hammer(Reflected(call.args.row, 7 * Tick), BODY_RATIO, WICK_RATIO)

\* the commissions charged on the entry and on the exit of a closed trade
TradeCommissions(self, trade) ==
    MulRate(trade.quantity * trade.entry_price, self.commission)
        + MulRate(trade.quantity * trade.exit_price[1], self.commission)

\* the sum, over the first k closed trades, of pnl minus both commissions
RECURSIVE NetPnl(_, _)
NetPnl(self, k) ==
    IF k = 0
    THEN 0
    ELSE NetPnl(self, k - 1) + self.positions[k].pnl - TradeCommissions(self, self.positions[k])

\* no position is open and at least one trade has been closed
FlatAfterTrades == portfolio.current_position = None /\ portfolio.positions # <<>>

\* C34: for every closed trade, LONG or SHORT, the change in cash from just
\* before its open to just after its close is its pnl minus the entry and
\* exit commissions; so between trades cash - initial_capital is the sum of
\* these, and with zero commission it is the sum of the recorded pnl.
C34_CashMatchesPnl ==
    FlatAfterTrades =>
        /\ portfolio.cash - portfolio.initial_capital
              = NetPnl(portfolio, Len(portfolio.positions))
        /\ portfolio.commission = 0 =>
              portfolio.cash - portfolio.initial_capital
                  = SumPnl(portfolio.positions, Len(portfolio.positions))

\* what holds: the same, while every closed trade is a LONG
C34_LongCashMatchesPnl ==
    (FlatAfterTrades /\ \A k \in DOMAIN portfolio.positions :
                            portfolio.positions[k].position_type = "LONG") =>
        /\ portfolio.cash - portfolio.initial_capital
              = NetPnl(portfolio, Len(portfolio.positions))
        /\ portfolio.commission = 0 =>
              portfolio.cash - portfolio.initial_capital
                  = SumPnl(portfolio.positions, Len(portfolio.positions))

\* for a SHORT trade the cash changes by minus the pnl, less the commissions
C34_ShortCashOpposesPnl ==
    (FlatAfterTrades /\ Len(portfolio.positions) = 1
                     /\ portfolio.positions[1].position_type = "SHORT") =>
        portfolio.cash - portfolio.initial_capital
            = 0 - portfolio.positions[1].pnl - TradeCommissions(portfolio, portfolio.positions[1])

\* one SHORT trade closed at a profit without commission, and less cash than
\* at the start
C34_ShortProfitLosesCash ==
    /\ FlatAfterTrades
    /\ portfolio.commission = 0
    /\ Len(portfolio.positions) = 1
    /\ portfolio.positions[1].position_type = "SHORT"
    /\ portfolio.positions[1].pnl > 0
    /\ portfolio.cash < portfolio.initial_capital

\* the last row of the equity curve
LastEquity(self) == self.equity_curve[Len(self.equity_curve)]

\* C35: the end-of-data force-close leaves the equity curve as the bar loop
\* left it; after the run its last entry equals final_capital when no position
\* was open after the last bar, and otherwise is cash + quantity x final close
\* of the position still open, not the cash after the force-close.
C35_ForceCloseKeepsCurve ==
    [][LoopLeft
          => /\ portfolio'.equity_curve = portfolio.equity_curve
             /\ call'.ret.final_capital = portfolio'.cash
             /\ i > 0 =>
                   IF IsOpen(portfolio)
                   THEN LastEquity(portfolio').equity
                           = portfolio.cash + portfolio.current_position[1].quantity * row.Close
                   ELSE LastEquity(portfolio').equity = call'.ret.final_capital]_vars

\* a run has ended with a force-close, and its last equity entry is above its
\* final capital
C35_Witness ==
    /\ pc = "done"
    /\ call.op = "run"
    /\ i > 0
    /\ portfolio.positions # <<>>
    /\ LastTrade(portfolio).exit_reason = "End of Data"
    /\ LastEquity(portfolio).equity > call.ret.final_capital

\* C36: after a run over bars with increasing timestamps the trades are in
\* order and do not overlap: every trade has exit timestamp >= entry
\* timestamp, with equality only for a trade opened on the final bar and
\* closed with reason End of Data, and every trade's entry timestamp is >= the
\* previous trade's exit timestamp.
C36_TradesChronological ==
    pc \in {"loop", "done"} =>
        \A k \in DOMAIN portfolio.positions :
            LET trade == portfolio.positions[k]
            IN  /\ trade.exit_date[1] >= trade.entry_date
                /\ trade.exit_date[1] = trade.entry_date =>
                      /\ pc = "done"
                      /\ k = Len(portfolio.positions)
                      /\ trade.entry_date = i - 1
                      /\ trade.exit_reason = "End of Data"
                /\ k > 1 => trade.entry_date >= portfolio.positions[k - 1].exit_date[1]

\* a run has ended with two trades: the second was entered on the bar that
\* closed the first, which was the final bar, and was closed at end of data
C36_Witness ==
    /\ pc = "done"
    /\ Len(portfolio.positions) = 2
    /\ portfolio.positions[2].entry_date = portfolio.positions[1].exit_date[1]
    /\ portfolio.positions[1].exit_date[1] > portfolio.positions[1].entry_date
    /\ portfolio.positions[2].exit_date[1] = portfolio.positions[2].entry_date
    /\ portfolio.positions[2].exit_reason = "End of Data"

\* this step is the iteration of the scan on bar i
Scanned == pc = "scan" /\ i' = i + 1

\* C37: in both reversal generators, whenever bar i is a detected hammer
\* (shooting star) after a trend and bar i+1 satisfies both breakout
\* conditions, the risk bar[i+1].Open - bar[i].Low (bar[i].High -
\* bar[i+1].Open) is strictly positive and the signal is written on bar i+1:
\* the branch that drops a confirmed breakout for its risk is never taken.
C37_RiskPositive ==
    /\ [][(Scanned /\ strategy.name = "Hammer Reversal"
                   /\ iloc(df', i).is_hammer /\ iloc(df', i).has_downtrend
                   /\ HammerBreakout(iloc(df, i + 1), iloc(df, i).High))
            => /\ iloc(df, i + 1).Open - iloc(df, i).Low > 0
               /\ iloc(df', i + 1).signal = 1
               /\ iloc(df', i + 1).pattern_date = Some(i)]_vars
    /\ [][(Scanned /\ strategy.name = "Shooting Star Reversal"
                   /\ iloc(df', i).is_shooting_star /\ iloc(df', i).has_uptrend
                   /\ ShootingStarBreakdown(iloc(df, i + 1), iloc(df, i).Low))
            => /\ iloc(df, i).High - iloc(df, i + 1).Open > 0
               /\ iloc(df', i + 1).signal = 0 - 1
               /\ iloc(df', i + 1).pattern_date = Some(i)]_vars

\* a hammer after a downtrend, a next bar that opens above the hammer's high,
\* and the signal on that bar
C37_Witness ==
    /\ pc = "scan"
    /\ strategy.name = "Hammer Reversal"
    /\ i >= 1
    /\ i + 1 <= Len(df)
    /\ iloc(df, i - 1).is_hammer
    /\ iloc(df, i - 1).has_downtrend
    /\ iloc(df, i).signal = 1
    /\ iloc(df, i).Open > iloc(df, i - 1).High

\* a shooting star after an uptrend and the signal on the bar that breaks it
C37_ShortCase ==
    /\ pc = "scan"
    /\ strategy.name = "Shooting Star Reversal"
    /\ i >= 1
    /\ i + 1 <= Len(df)
    /\ iloc(df, i - 1).is_shooting_star
    /\ iloc(df, i - 1).has_uptrend
    /\ iloc(df, i).signal = 0 - 1

\* low <= min(open, close) and max(open, close) <= high
WellFormed(r) == r.Low <= Min(r.Open, r.Close) /\ Max(r.Open, r.Close) <= r.High

\* in an upward breakout the tracked high is above the range, in a downward
\* breakout the tracked low is below it
TrackedOutside(s) ==
    /\ s.in_breakout_up => s.breakout_high[1] > s.four_hour_high[1]
    /\ s.in_breakout_down => s.breakout_low[1] < s.four_hour_low[1]

\* the risk of the entry on row r when it returns the state s to Flat
ReEntryRisk(s, r) ==
    IF s.in_breakout_up
    THEN Max(s.breakout_high[1], r.High) - r.High
    ELSE r.Low - Min(s.breakout_low[1], r.Low)

\* C38: in the session generator, for bars with low <= min(open, close) and
\* max(open, close) <= high: a breakout that begins tracks an extreme outside
\* the range (breakout-high > rangeHigh, breakout-low < rangeLow), it stays
\* outside while the breakout lasts, and the bar that returns the state to
\* Flat has strictly positive risk and is given a signal: the reset without a
\* signal does not occur.
C38_ReEntryRiskPositive ==
    [][(CandleProcessed /\ WellFormed(row'))
       => /\ Flat(session) => TrackedOutside(session')
          /\ (~Flat(session) /\ TrackedOutside(session))
                => /\ TrackedOutside(session')
                   /\ Flat(session')
                         => /\ ReEntryRisk(session, row') > 0
                            /\ row'.signal = IF session.in_breakout_up THEN 0 - 1 ELSE 1
                            /\ row'.stop_loss # None]_vars

\* without the condition on the bars the reset without a signal occurs
C38_AnyBars ==
    [][(CandleProcessed /\ ~Flat(session) /\ Flat(session')) => row'.signal # 0]_vars

\* a bar inside the range has ended a downward breakout and carries the LONG
\* signal, its stop below the range
C38_Witness ==
    /\ pc = "candles"
    /\ i >= 2
    /\ Flat(session)
    /\ WellFormed(row)
    /\ row.signal = 1
    /\ row.stop_loss[1] < session.four_hour_low[1]
    /\ row.Low >= session.four_hour_low[1]

\* the trend window N of the generator that is scanning
Window ==
    IF strategy.name = "Hammer Reversal"
    THEN strategy.downtrend_candles
    ELSE strategy.uptrend_candles

\* the scan is at its first index, i = N, and the series has the N bars before it
AtWindow == pc = "scan" /\ i = Window /\ Len(df) >= Window

\* C39: strict trend detection needs N+1 bars before the index: at index = N
\* detect_downtrend and detect_uptrend with strict = True are false for every
\* series, so a signal that the first iteration of a reversal generator
\* (i = N) writes on the next bar rests on the relaxed detection.
C39_StrictNeedsOneMoreBar ==
    /\ [](AtWindow => /\ ~detect_downtrend(df, i, Window, TRUE)
                      /\ ~detect_uptrend(df, i, Window, TRUE))
    /\ [][(Scanned /\ AtWindow /\ iloc(df', i + 1).signal # 0)
            => IF strategy.name = "Hammer Reversal"
               THEN /\ ~detect_downtrend(df, i, Window, TRUE)
                    /\ detect_downtrend(df, i, Window, FALSE)
                    /\ iloc(df', i).has_downtrend
               ELSE /\ ~detect_uptrend(df, i, Window, TRUE)
                    /\ detect_uptrend(df, i, Window, FALSE)
                    /\ iloc(df', i).has_uptrend]_vars

\* the same for the recorded calls of the detectors, the window of
\* DOWNTREND_CANDLES bars included
C39_StrictAtWindow ==
    (call.op = "trend" /\ call.args.index = call.args.num_candles)
        => ~call.ret.down_strict /\ ~call.ret.up_strict

\* the first iteration of the hammer scan has found a trend at i = N and
\* written the signal on bar N + 1
C39_Witness ==
    /\ pc = "scan"
    /\ strategy.name = "Hammer Reversal"
    /\ i = strategy.downtrend_candles + 1
    /\ i + 1 <= Len(df)
    /\ iloc(df, i - 1).is_hammer
    /\ iloc(df, i - 1).has_downtrend
    /\ iloc(df, i).signal = 1

\* the relaxed detection is true at index = N with one more bar before it
\* missing, where the strict one is not
C39_RelaxedAtWindow ==
    /\ call.op = "trend"
    /\ call.args.index = call.args.num_candles
    /\ call.args.num_candles = DOWNTREND_CANDLES
    /\ call.ret.down_relaxed

====
